---- MODULE Spec2Model ----
(***************************************************************************)
(* A model of the mangetamain application: the RecipeAnalyzer artifact     *)
(* cache (backend/recipe_analyzer.py), the DataProcessor pipeline          *)
(* (backend/data_processor.py), the data load and session of the user      *)
(* interface (utils/helper.py, streamlit_ui.py, frontend/pages) and the    *)
(* loggers (utils/logger.py).                                              *)
(*                                                                         *)
(* Spec             one caller, whole method calls on one RecipeAnalyzer   *)
(* SpecConc         concurrent callers of one shared RecipeAnalyzer        *)
(* SpecProc         the DataProcessor stages on a loaded pair of raw tables*)
(* SpecPipeline     the stages, user_df and save_data on rated reviews     *)
(* SpecPickle       save and load of a RecipeAnalyzer                      *)
(* SpecText         _clean_text and _clean_texts_batch on texts            *)
(* SpecLoad         load_data on the files of data/raw                     *)
(* SpecHelper       the cached data load and main()                        *)
(* SpecIngredients  _compute_top_ingredients                               *)
(* SpecValues       _clean_text on values that are not texts               *)
(* SpecLog          the logger classes through their public methods        *)
(* SpecLogInit      SpecLog with calls of _init_logger                     *)
(***************************************************************************)
EXTENDS Bags, FiniteSets, Integers, Sequences, TLC

VARIABLES
    built,          \* RecipeAnalyzer.__init__ has returned
    nlp,            \* self.nlp: the spaCy model the analyzer holds
    corpus,         \* category -> texts its query selects from the dataframes
    top_ingredients,\* self.top_ingredients (rows of the ingredient table)
    cache,          \* self._cache: key -> payload
    made,           \* key -> number of payload objects created for the key
    raised,         \* bag of keys: computation bodies that raised
    served,         \* key -> ids of the objects calls have returned for it
    lastCall,       \* the most recent call, its outcome and what it returned
    thr,            \* SpecConc: thread -> its position inside a method
    proc,           \* SpecProc: the DataProcessor's attributes
    perr,           \* SpecProc: the last stage call and exception, if any
    disk,           \* the files the program reads and writes
    session,        \* st.session_state of one browser session
    loggers,        \* utils/logger.py: the singletons, the handlers, the log files
    loaded,         \* what a load returned and the program keeps (analyzer, cached tuple)
    input,          \* the arguments of the function under analysis
    output          \* what the last call of that function produced

avars == <<built, nlp, corpus, top_ingredients, cache, made, raised, served, lastCall>>
xvars == <<disk, session, loggers, loaded, input, output>>
vars == <<built, nlp, corpus, top_ingredients, cache, made, raised, served, lastCall,
          thr, proc, perr, disk, session, loggers, loaded, input, output>>

(***************************************************************************)
(* Generic helpers                                                         *)
(***************************************************************************)
Put(f, k, v) == [y \in DOMAIN f \cup {k} |-> IF y = k THEN v ELSE f[y]]

Count(f, k) == IF k \in DOMAIN f THEN f[k] ELSE 0

EmptyMap == [k \in {} |-> 0]

Min(a, b) == IF a < b THEN a ELSE b

RECURSIVE Flatten(_)
Flatten(ss) == IF ss = <<>> THEN <<>> ELSE Head(ss) \o Flatten(Tail(ss))

Range(s) == {s[i] : i \in DOMAIN s}

(***************************************************************************)
(* RecipeAnalyzer: text preprocessing                                      *)
(***************************************************************************)
Categories == {"most", "best", "worst"}

\* spacy.load("en_core_web_sm", ...), and the value of an attribute set to None.
SPACY_MODEL == "en_core_web_sm"
NoModel == "None"

\* A null cell of a string column (None), and a float cell (NaN): the values
\* of a text column that are not str.
Null == "<null>"
NaN == "<nan>"

\* An int and a list passed where a text is expected.
Number == "<number>"
ListValue == "<list>"

IsStr(text) == text \notin {Null, NaN, Number, ListValue}

\* not text.strip()
IsBlank(review) == review \in {"", " "}

\* str.lower()
Lower(text) ==
    CASE text = "Tasty Soups" -> "tasty soups"
      [] text = "Loved it 2x" -> "loved it 2x"
      [] OTHER -> text

Token(text, lemma, is_alpha, pos) ==
    [text |-> text, lemma |-> lemma, is_alpha |-> is_alpha, pos |-> pos]

\* self.nlp(text): the tokens of the document with their lemma and tag.
Nlp(text) ==
    CASE text = "tasty soups" ->
            <<Token("tasty", "tasty", TRUE, "ADJ"),
              Token("soups", "soup", TRUE, "NOUN")>>
      [] text = "tasty soup" ->
            <<Token("tasty", "tasty", TRUE, "ADJ"),
              Token("soup", "soup", TRUE, "NOUN")>>
      [] text = "loved it 2x" ->
            <<Token("loved", "love", TRUE, "VERB"),
              Token("it", "it", TRUE, "PRON"),
              Token("2x", "2x", FALSE, "NUM")>>
      [] text = "great recipe ok" ->
            <<Token("great", "great", TRUE, "ADJ"),
              Token("recipe", "recipe", TRUE, "NOUN"),
              Token("ok", "ok", TRUE, "INTJ")>>
      [] OTHER -> <<Token(text, text, TRUE, "NOUN")>>

\* spacy.lang.en.STOP_WORDS extended by _extend_stop_words.
StopWords == {"it", "the", "recipe", "great", "good"}

MIN_TOKEN_LENGTH == 2

Lemmas(tokens) == [i \in DOMAIN tokens |-> tokens[i].lemma]

\* _clean_text: the kept lemmas of one text, none for an invalid text.
CleanText(text) ==
    IF ~IsStr(text) \/ IsBlank(text)
    THEN <<>>
    ELSE LET keep(token) ==
                 /\ token.is_alpha
                 /\ token.lemma \notin StopWords
                 /\ Len(token.text) > MIN_TOKEN_LENGTH
                 /\ token.pos # "VERB"
         IN  Lemmas(SelectSeq(Nlp(Lower(text)), keep))

DocTokens_KeepVerbs(doc) ==
    LET keep(token) ==
            /\ token.is_alpha
            /\ token.lemma \notin StopWords
            /\ Len(token.text) > MIN_TOKEN_LENGTH
    IN  Lemmas(SelectSeq(doc, keep))

\* The tokens the batch loop takes from one piped document.
DocTokens(doc) ==
    LET keep(token) ==
            /\ token.is_alpha
            /\ token.lemma \notin StopWords
            /\ Len(token.text) > MIN_TOKEN_LENGTH
            /\ token.pos # "VERB"
    IN  Lemmas(SelectSeq(doc, keep))

\* _clean_texts_batch: drop the invalid texts, lower and pipe the rest,
\* concatenate the tokens of the documents in order.
CleanTextsBatch(texts) ==
    LET valid(t) == IsStr(t) /\ ~IsBlank(t)
        kept == SelectSeq(texts, valid)
        valid_texts == [i \in DOMAIN kept |-> Lower(kept[i])]
    IN  IF valid_texts = <<>>
        THEN <<>>
        ELSE Flatten([i \in DOMAIN valid_texts |-> DocTokens(Nlp(valid_texts[i]))])

PreprocessedKey(cat) ==
    CASE cat = "best" -> <<"preprocessed_500_best_reviews">>
      [] cat = "worst" -> <<"preprocessed_500_worst_reviews">>
      [] cat = "most" -> <<"preprocessed_500_most_reviews">>

\* switch_filter: the cache key of the selected token list; best on an
\* unknown filter.
SwitchFilter(rating_filter) ==
    IF rating_filter \in {"best", "worst", "most"}
    THEN PreprocessedKey(rating_filter)
    ELSE PreprocessedKey("best")

(***************************************************************************)
(* RecipeAnalyzer: payloads and call results                               *)
(***************************************************************************)
NoTitle == ""

Payload(key, gen, kind, marker, src, n, title, data) ==
    [id |-> <<key, gen>>, kind |-> kind, marker |-> marker, src |-> src,
     n |-> n, title |-> title, data |-> data]

NoArtifact == Payload(<<>>, 0, "none", "", <<>>, 0, NoTitle, <<>>)

\* What a computation body produced, before it is stored: b.out is
\* "placeholder", "figure" or "raised".
BodyResult(out, marker, src, n, title, data) ==
    [out |-> out, marker |-> marker, src |-> src, n |-> n, title |-> title,
     data |-> data]

BodyRaise == BodyResult("raised", "", <<>>, 0, NoTitle, <<>>)

\* The object a body builds for key: a new object on every execution.
NewObject(a, key, b) ==
    Payload(key, Count(a.made, key),
            IF b.out = "placeholder" THEN "placeholder" ELSE b.out,
            b.marker, b.src, b.n, b.title, b.data)

\* self._cache[cache_key] = fig ; return
Store(a, key, b) ==
    LET fig == NewObject(a, key, b)
    IN  [cache |-> Put(a.cache, key, fig),
         made |-> Put(a.made, key, Count(a.made, key) + 1),
         raised |-> a.raised,
         served |-> Put(a.served, key,
                        (IF key \in DOMAIN a.served THEN a.served[key] ELSE {})
                            \cup {fig.id}),
         key |-> key, outcome |-> "computed", ret |-> fig]

\* An exception leaves the body: nothing is stored, the caller sees it.
Raise(a, key) ==
    [cache |-> a.cache, made |-> a.made,
     raised |-> a.raised (+) SetToBag({key}), served |-> a.served,
     key |-> key, outcome |-> "raised", ret |-> NoArtifact]

\* return self._cache[cache_key]
Hit(a, key) ==
    [cache |-> a.cache, made |-> a.made, raised |-> a.raised,
     served |-> Put(a.served, key,
                    (IF key \in DOMAIN a.served THEN a.served[key] ELSE {})
                        \cup {a.cache[key].id}),
     key |-> key, outcome |-> "cached", ret |-> a.cache[key]]

Finish_CacheOnFailure(a, key, b) ==
    IF b.out = "raised"
    THEN [Raise(a, key) EXCEPT !.cache = Put(a.cache, key, NoArtifact)]
    ELSE Store(a, key, b)

Finish(a, key, b) ==
    IF b.out = "raised" THEN Raise(a, key) ELSE Store(a, key, b)

(***************************************************************************)
(* RecipeAnalyzer: the memoized operations                                 *)
(***************************************************************************)
\* Counter(texts).most_common(n): the number of entries of word_freq.
MostCommonSize(texts, n) ==
    IF n < 1 THEN 0 ELSE Min(n, Cardinality(Range(texts)))

\* WordCloud(max_words=n).generate_from_frequencies(word_freq) rejects an
\* empty frequency table with ValueError.
GenerateFromFrequenciesRaises(size) == size < 1

\* TfidfVectorizer(max_features=n).fit_transform(docs) rejects max_features
\* below 1.
TfidfFitRaises(n, texts) == n < 1

PlotWordCloudKey(n, rating_filter) ==
    <<"word_cloud", rating_filter, ToString(n)>>

PlotWordCloudBody(a, n, rating_filter, title) ==
    LET src == SwitchFilter(rating_filter)
        texts == a.cache[src].data
    IN  IF texts = <<>>
        THEN BodyResult("placeholder", "No text available", src, n, title, <<>>)
        ELSE IF GenerateFromFrequenciesRaises(MostCommonSize(texts, n))
             THEN BodyRaise
             ELSE BodyResult("figure", "", src, n, title, <<>>)

PlotWordCloud_Recompute(a, n, rating_filter, title) ==
    Finish(a, PlotWordCloudKey(n, rating_filter),
           PlotWordCloudBody(a, n, rating_filter, title))

PlotWordCloud(a, n, rating_filter, title) ==
    LET cache_key == PlotWordCloudKey(n, rating_filter)
    IN  IF cache_key \notin DOMAIN a.cache
        THEN Finish(a, cache_key, PlotWordCloudBody(a, n, rating_filter, title))
        ELSE Hit(a, cache_key)

PlotTfidfKey(n, rating_filter) ==
    <<"tfidf", rating_filter, ToString(n)>>

PlotTfidfBody(a, n, rating_filter, title) ==
    LET src == SwitchFilter(rating_filter)
        texts == a.cache[src].data
    IN  IF texts = <<>>
        THEN BodyResult("placeholder", "No text available", src, n, title, <<>>)
        ELSE IF TfidfFitRaises(n, texts)
                \/ GenerateFromFrequenciesRaises(MostCommonSize(texts, n))
             THEN BodyRaise
             ELSE BodyResult("figure", "", src, n, title, <<>>)

PlotTfidf(a, n, rating_filter, title) ==
    LET cache_key == PlotTfidfKey(n, rating_filter)
    IN  IF cache_key \notin DOMAIN a.cache
        THEN Finish(a, cache_key, PlotTfidfBody(a, n, rating_filter, title))
        ELSE Hit(a, cache_key)

CompareKey(recipe_count, n, title) ==
    <<"compare", ToString(recipe_count), ToString(n), title>>

CompareBody(a, recipe_count, n, rating_filter, title) ==
    LET src == SwitchFilter(rating_filter)
        cleaned == a.cache[src].data
    IN  IF cleaned = <<>>
        THEN BodyResult("placeholder", "No text available", src, n, title, <<>>)
        ELSE IF TfidfFitRaises(n, cleaned)
             THEN BodyRaise
             ELSE BodyResult("figure", "", src, n, title, <<>>)

CompareFrequencyAndTfidf(a, recipe_count, n, rating_filter, title) ==
    LET cache_key == CompareKey(recipe_count, n, title)
    IN  IF cache_key \notin DOMAIN a.cache
        THEN Finish(a, cache_key,
                    CompareBody(a, recipe_count, n, rating_filter, title))
        ELSE Hit(a, cache_key)

PlotTopIngredientsKey(top_n) == <<"top_ingredients", ToString(top_n)>>

\* DataFrame.head(n): the first n rows (all but the last -n for n < 0).
DfHead(rows, n) ==
    IF n >= 0 THEN SubSeq(rows, 1, Min(n, Len(rows)))
    ELSE SubSeq(rows, 1, IF Len(rows) + n > 0 THEN Len(rows) + n ELSE 0)

PlotTopIngredientsBody(ingredients, top_n) ==
    LET ingredients_counts == DfHead(ingredients, top_n)
    IN  IF Len(ingredients_counts) = 0
        THEN BodyResult("placeholder", "No ingredients found", <<>>, top_n,
                        NoTitle, <<>>)
        ELSE BodyResult("figure", "", <<>>, top_n, NoTitle, ingredients_counts)

PlotTopIngredients(a, ingredients, top_n) ==
    LET cache_key == PlotTopIngredientsKey(top_n)
    IN  IF cache_key \notin DOMAIN a.cache
        THEN Finish(a, cache_key, PlotTopIngredientsBody(ingredients, top_n))
        ELSE Hit(a, cache_key)

GetReviewsKey(recipe_ids) ==
    <<"reviews", ToString(SubSeq(recipe_ids, 1, Min(3, Len(recipe_ids)))),
      ToString(Len(recipe_ids))>>

\* get_reviews_for_recipes: the reviews of the rows whose recipe_id is in
\* recipe_ids are stored under the key; every call returns a new list holding
\* the stored reviews.
GetReviewsForRecipes(a, recipe_ids) ==
    LET cache_key == GetReviewsKey(recipe_ids)
        r == IF cache_key \notin DOMAIN a.cache
             THEN Store(a, cache_key,
                        BodyResult("reviews", "", <<>>, 0, NoTitle, recipe_ids))
             ELSE Hit(a, cache_key)
    IN  [r EXCEPT !.served = a.served,
                  !.ret = [r.cache[cache_key] EXCEPT !.kind = "copy",
                                                     !.id = <<cache_key, -1>>]]

(***************************************************************************)
(* RecipeAnalyzer.__init__                                                 *)
(***************************************************************************)
CategoryTitle(cat) ==
    CASE cat = "most" -> "Most reviewed recipes"
      [] cat = "best" -> "Best rated recipes"
      [] cat = "worst" -> "Worst rated recipes"

FrequencyTitle(cat) ==
    CASE cat = "most" -> "Frequency - Most reviewed recipes"
      [] cat = "best" -> "Frequency - Best rated recipes"
      [] cat = "worst" -> "Frequency - Worst rated recipes"

TfidfTitle(cat) ==
    CASE cat = "most" -> "TF-IDF - Most reviewed recipes"
      [] cat = "best" -> "TF-IDF - Best rated recipes"
      [] cat = "worst" -> "TF-IDF - Worst rated recipes"

ComparisonTitle(cat) ==
    CASE cat = "most" -> "Comparison - Most reviewed recipes"
      [] cat = "best" -> "Comparison - Best rated recipes"
      [] cat = "worst" -> "Comparison - Worst rated recipes"

\* The size __init__ pre-computes every figure with.
PRECOMPUTE_SIZE == 100

\* _preprocessed_500_*_reviews: store the cleaned tokens of one category.
Preprocessed(a, texts, cat) ==
    LET key == PreprocessedKey(cat)
    IN  [Store(a, key, BodyResult("tokens", "", key, 0, NoTitle,
                                  CleanTextsBatch(texts[cat])))
            EXCEPT !.served = a.served]

\* The calls of _preprocess_word_cloud and _preprocess_comparisons, in order.
InitOrder == <<"most", "best", "worst">>

InitCall(a, i) ==
    CASE i \in 1..3 ->
            Preprocessed(a, corpus, <<"best", "worst", "most">>[i])
      [] i \in {4, 6, 8} ->
            PlotWordCloud(a, PRECOMPUTE_SIZE, InitOrder[(i - 2) \div 2],
                          FrequencyTitle(InitOrder[(i - 2) \div 2]))
      [] i \in {5, 7, 9} ->
            PlotTfidf(a, PRECOMPUTE_SIZE, InitOrder[(i - 3) \div 2],
                      TfidfTitle(InitOrder[(i - 3) \div 2]))
      [] i \in 10..12 ->
            CompareFrequencyAndTfidf(a, PRECOMPUTE_SIZE, PRECOMPUTE_SIZE,
                                     InitOrder[i - 9],
                                     ComparisonTitle(InitOrder[i - 9]))

INIT_CALLS == 12

\* The analyzer after the first i calls of __init__; a raised call ends it.
RECURSIVE InitRun(_)
InitRun(i) ==
    IF i = 0
    THEN [cache |-> EmptyMap, made |-> EmptyMap, raised |-> EmptyBag,
          served |-> EmptyMap, key |-> <<>>, outcome |-> "computed", ret |-> NoArtifact]
    ELSE LET p == InitRun(i - 1)
         IN  IF p.outcome = "raised" THEN p ELSE InitCall(p, i)

(***************************************************************************)
(* One caller: every action is one whole method call                       *)
(***************************************************************************)
\* The parameter values callers pass.
Sizes == {0, 100}
CallFilters == {"best", "most"}
Titles == {"Test"}
CompareTitles == {"Comparison - Best rated recipes"}
RecipeCounts == {100}
TopNs == {0, 20}
IdLists == {<<1, 2, 3, 4>>, <<1, 2, 3, 5>>}

\* How many raised computations a behaviour holds.
MaxRaised == 2

Texts == {<<"">>, <<"tasty soup">>}

Analyzer == [cache |-> cache, made |-> made, raised |-> raised, served |-> served]

\* A call as its caller sees it: the arguments, and what came back.
CallRecord(op, recipe_count, n, rating_filter, title, recipe_ids, r) ==
    [op |-> op, recipe_count |-> recipe_count, n |-> n,
     rating_filter |-> rating_filter, title |-> title, recipe_ids |-> recipe_ids,
     key |-> r.key, outcome |-> r.outcome, ret |-> r.ret]

NoCall ==
    [op |-> "none", recipe_count |-> 0, n |-> 0, rating_filter |-> "",
     title |-> NoTitle, recipe_ids |-> <<>>, key |-> <<>>, outcome |-> "none", ret |-> NoArtifact]

\* The analyzer takes the state a call left and the call is recorded.
Apply(r, op, recipe_count, n, rating_filter, title, recipe_ids) ==
    /\ r.outcome = "raised" => BagCardinality(raised) < MaxRaised
    /\ cache' = r.cache
    /\ made' = r.made
    /\ raised' = r.raised
    /\ served' = r.served
    /\ lastCall' = CallRecord(op, recipe_count, n, rating_filter, title,
                               recipe_ids, r)
    /\ UNCHANGED <<built, nlp, corpus, top_ingredients>>

InitAnalyzer ==
    /\ built = FALSE
    /\ nlp = NoModel
    /\ corpus \in {c \in [Categories -> Texts] : c["worst"] = c["best"]}
    /\ top_ingredients = <<"onion", "tomato">>
    /\ cache = EmptyMap
    /\ made = EmptyMap
    /\ raised = EmptyBag
    /\ served = EmptyMap
    /\ lastCall = NoCall

Threads == {"t1", "t2"}

NoParams ==
    [op |-> "none", recipe_count |-> 0, n |-> 0, rating_filter |-> "",
     title |-> NoTitle]

IdleThread == [pc |-> "idle", call |-> NoParams, fig |-> NoArtifact]

Idle == [t \in Threads |-> IdleThread]
NoProc == [has |-> {}]
NoErr == [stage |-> "none", error |-> "none"]
NoDisk == [files |-> {}]
NoValue == [kind |-> "none"]
NoSession == [state |-> EmptyMap]
NoLoggers == [instance |-> <<>>]

\* The variables of the other specifications hold their idle values.
NoFiles ==
    /\ disk = NoDisk
    /\ session = NoSession
    /\ loggers = NoLoggers
    /\ loaded = NoValue
    /\ input = NoValue
    /\ output = NoValue

\* RecipeAnalyzer(df_interactions, df_recipes, df_total)
Construct ==
    /\ ~built
    /\ lastCall.op = "none"
    /\ LET r == InitRun(INIT_CALLS)
       IN  /\ built' = (r.outcome # "raised")
           /\ nlp' = IF r.outcome # "raised" THEN SPACY_MODEL ELSE nlp
           /\ cache' = r.cache
           /\ made' = r.made
           /\ raised' = r.raised
           /\ served' = r.served
           /\ lastCall' = CallRecord("__init__", PRECOMPUTE_SIZE, PRECOMPUTE_SIZE,
                                     "", NoTitle, <<>>, r)
    /\ UNCHANGED <<corpus, top_ingredients>>

CallPlotWordCloud ==
    /\ built
    /\ \E n \in Sizes, rating_filter \in CallFilters, title \in Titles :
          Apply(PlotWordCloud(Analyzer, n, rating_filter, title),
                "plot_word_cloud", 0, n, rating_filter, title, <<>>)

CallPlotTfidf ==
    /\ built
    /\ \E n \in Sizes, rating_filter \in CallFilters, title \in Titles :
          Apply(PlotTfidf(Analyzer, n, rating_filter, title),
                "plot_tfidf", 0, n, rating_filter, title, <<>>)

CallCompare ==
    /\ built
    /\ \E recipe_count \in RecipeCounts, n \in Sizes,
          rating_filter \in CallFilters, title \in CompareTitles :
          Apply(CompareFrequencyAndTfidf(Analyzer, recipe_count, n,
                                         rating_filter, title),
                "compare_frequency_and_tfidf", recipe_count, n, rating_filter,
                title, <<>>)

CallPlotTopIngredients ==
    /\ built
    /\ \E top_n \in TopNs :
          Apply(PlotTopIngredients(Analyzer, top_ingredients, top_n),
                "plot_top_ingredients", 0, top_n, "", NoTitle, <<>>)

CallGetReviewsForRecipes ==
    /\ built
    /\ \E recipe_ids \in IdLists :
          Apply(GetReviewsForRecipes(Analyzer, recipe_ids),
                "get_reviews_for_recipes", 0, 0, "", NoTitle, recipe_ids)

Init ==
    /\ InitAnalyzer
    /\ thr = Idle
    /\ proc = NoProc
    /\ perr = NoErr
    /\ NoFiles

Next ==
    \/ Construct /\ UNCHANGED <<thr, proc, perr>> /\ UNCHANGED xvars
    \/ CallPlotWordCloud /\ UNCHANGED <<thr, proc, perr>> /\ UNCHANGED xvars
    \/ CallPlotTfidf /\ UNCHANGED <<thr, proc, perr>> /\ UNCHANGED xvars
    \/ CallCompare /\ UNCHANGED <<thr, proc, perr>> /\ UNCHANGED xvars
    \/ CallPlotTopIngredients /\ UNCHANGED <<thr, proc, perr>> /\ UNCHANGED xvars
    \/ CallGetReviewsForRecipes /\ UNCHANGED <<thr, proc, perr>> /\ UNCHANGED xvars

Spec == Init /\ [][Next]_vars

(***************************************************************************)
(* Concurrent callers: the sessions share one analyzer, a method call is   *)
(* its membership test, its body, its store and its return                 *)
(***************************************************************************)
Params(op, recipe_count, n, rating_filter, title) ==
    [op |-> op, recipe_count |-> recipe_count, n |-> n,
     rating_filter |-> rating_filter, title |-> title]

\* The calls the sessions issue after construction.
ConcCalls ==
    {Params("plot_word_cloud", 0, 50, "best", "Test"),
     Params("plot_word_cloud", 0, 0, "best", "Test"),
     Params("plot_top_ingredients", 0, 10, "", NoTitle)}

KeyOf(c) ==
    CASE c.op = "plot_word_cloud" -> PlotWordCloudKey(c.n, c.rating_filter)
      [] c.op = "plot_tfidf" -> PlotTfidfKey(c.n, c.rating_filter)
      [] c.op = "compare_frequency_and_tfidf" ->
            CompareKey(c.recipe_count, c.n, c.title)
      [] c.op = "plot_top_ingredients" -> PlotTopIngredientsKey(c.n)

BodyOf(a, c) ==
    CASE c.op = "plot_word_cloud" ->
            PlotWordCloudBody(a, c.n, c.rating_filter, c.title)
      [] c.op = "plot_tfidf" -> PlotTfidfBody(a, c.n, c.rating_filter, c.title)
      [] c.op = "compare_frequency_and_tfidf" ->
            CompareBody(a, c.recipe_count, c.n, c.rating_filter, c.title)
      [] c.op = "plot_top_ingredients" ->
            PlotTopIngredientsBody(top_ingredients, c.n)

ThreadRecord(c, r) ==
    CallRecord(c.op, c.recipe_count, c.n, c.rating_filter, c.title, <<>>, r)

\* Bodies that will raise and have not finished yet.
Raising ==
    {t \in Threads : thr[t].pc = "compute"
                       /\ BodyOf(Analyzer, thr[t].call).out = "raised"}

\* if cache_key not in self._cache
Enter(t) ==
    /\ thr[t].pc = "idle"
    /\ \E c \in ConcCalls :
          /\ BodyOf(Analyzer, c).out = "raised" =>
                BagCardinality(raised) + Cardinality(Raising) < MaxRaised
          /\ thr' = [thr EXCEPT ![t] =
                        [pc |-> IF KeyOf(c) \notin DOMAIN cache
                                THEN "compute" ELSE "return",
                         call |-> c, fig |-> NoArtifact]]
    /\ UNCHANGED <<built, nlp, corpus, top_ingredients, cache, made, raised,
                   served, lastCall>>

\* The body builds the figure, or raises out of the method.
Compute(t) ==
    /\ thr[t].pc = "compute"
    /\ LET c == thr[t].call
           key == KeyOf(c)
           b == BodyOf(Analyzer, c)
       IN  IF b.out = "raised"
           THEN /\ raised' = raised (+) SetToBag({key})
                /\ lastCall' = ThreadRecord(c, Raise(Analyzer, key))
                /\ thr' = [thr EXCEPT ![t] = IdleThread]
                /\ UNCHANGED made
           ELSE /\ made' = Put(made, key, Count(made, key) + 1)
                /\ thr' = [thr EXCEPT ![t].pc = "store",
                                      ![t].fig = NewObject(Analyzer, key, b)]
                /\ UNCHANGED <<raised, lastCall>>
    /\ UNCHANGED <<built, nlp, corpus, top_ingredients, cache, served>>

\* self._cache[cache_key] = fig
StoreFigure(t) ==
    /\ thr[t].pc = "store"
    /\ cache' = Put(cache, KeyOf(thr[t].call), thr[t].fig)
    /\ thr' = [thr EXCEPT ![t].pc = "return"]
    /\ UNCHANGED <<built, nlp, corpus, top_ingredients, made, raised, served, lastCall>>

\* return self._cache[cache_key]; the placeholder branch returns its own fig.
Return(t) ==
    /\ thr[t].pc = "return"
    /\ LET c == thr[t].call
           key == KeyOf(c)
           ret == IF thr[t].fig.kind = "placeholder" THEN thr[t].fig
                  ELSE cache[key]
       IN  /\ served' = Put(served, key,
                            (IF key \in DOMAIN served THEN served[key] ELSE {})
                                \cup {ret.id})
           /\ lastCall' = ThreadRecord(c,
                 [key |-> key, ret |-> ret,
                  outcome |-> IF thr[t].fig = NoArtifact THEN "cached"
                              ELSE "computed"])
    /\ thr' = [thr EXCEPT ![t] = IdleThread]
    /\ UNCHANGED <<built, nlp, corpus, top_ingredients, cache, made, raised>>

\* The analyzer every session gets: constructed once, then shared.
InitConc ==
    /\ built = TRUE
    /\ nlp = SPACY_MODEL
    /\ corpus \in {c \in [Categories -> Texts] :
                      c["worst"] = c["best"] /\ c["most"] = c["best"]}
    /\ top_ingredients = <<"onion", "tomato">>
    /\ LET r == InitRun(INIT_CALLS)
       IN  /\ cache = r.cache
           /\ made = r.made
           /\ raised = r.raised
           /\ served = r.served
    /\ lastCall = NoCall
    /\ thr = Idle
    /\ proc = NoProc
    /\ perr = NoErr
    /\ NoFiles

NextConc ==
    \/ \E t \in Threads : Enter(t) /\ UNCHANGED <<proc, perr>> /\ UNCHANGED xvars
    \/ \E t \in Threads : Compute(t) /\ UNCHANGED <<proc, perr>> /\ UNCHANGED xvars
    \/ \E t \in Threads : StoreFigure(t) /\ UNCHANGED <<proc, perr>> /\ UNCHANGED xvars
    \/ \E t \in Threads : Return(t) /\ UNCHANGED <<proc, perr>> /\ UNCHANGED xvars

SpecConc == InitConc /\ [][NextConc]_vars

(***************************************************************************)
(* DataProcessor: tables                                                   *)
(***************************************************************************)
RATING_MAX == 5
NB_STEPS_MAX == 40
MEDIUM_LIM == 100
LONG_LIM == 60 * 48
YEAR_MINUTES == 60 * 24 * 365

\* DataFrame.filter(p) is SelectSeq(df, p): the rows that satisfy p, in order.

\* left.join(right, on="recipe_id", how="inner"): one row per matching pair,
\* in the order of the left table.
JoinKeyMatches_Any(row, r) == TRUE

JoinKeyMatches(row, r) == r.recipe_id = row.recipe_id

Matches(row, right) ==
    LET hit(r) == JoinKeyMatches(row, r)
        rs == SelectSeq(right, hit)
    IN  [j \in DOMAIN rs |->
            [user_id |-> row.user_id, recipe_id |-> row.recipe_id,
             rating |-> row.rating, review |-> row.review,
             minutes |-> rs[j].minutes, n_steps |-> rs[j].n_steps]]

InnerJoin(left, right) == Flatten([i \in DOMAIN left |-> Matches(left[i], right)])

\* sorted(values): ascending.
RECURSIVE Sorted(_)
Sorted(S) ==
    IF S = {} THEN <<>>
    ELSE LET m == CHOOSE x \in S : \A y \in S : x <= y
         IN  <<m>> \o Sorted(S \ {m})

\* series.value_counts().sort(name)["count"]: the count of every value that
\* occurs, ordered by value.
MinutesCounts(df) ==
    LET vals == Sorted({df[i].minutes : i \in DOMAIN df})
    IN  [j \in DOMAIN vals |->
            LET same(r) == r.minutes = vals[j] IN Len(SelectSeq(df, same))]

StepsCounts(df) ==
    LET vals == Sorted({df[i].n_steps : i \in DOMAIN df})
    IN  [j \in DOMAIN vals |->
            LET same(r) == r.n_steps = vals[j] IN Len(SelectSeq(df, same))]

\* numpy a / b on one-dimensional arrays: elementwise, an array of length 1
\* is broadcast, any other pair of different lengths is a ValueError.  A
\* quotient is kept as <<numerator, denominator>>.
NpDivideRaises(a, b) == Len(a) # Len(b) /\ Len(a) # 1 /\ Len(b) # 1

NpDivide(a, b) ==
    LET n == IF Len(a) = 1 THEN Len(b) ELSE Len(a)
    IN  [i \in 1..n |-> <<a[IF Len(a) = 1 THEN 1 ELSE i],
                          b[IF Len(b) = 1 THEN 1 ELSE i]>>]

\* pl.DataFrame({label: labels, value: values}): columns of different
\* lengths are a ShapeError.
FrameRaises(labels, values) == Len(labels) # Len(values)

Frame(labels, values) ==
    [i \in DOMAIN labels |-> [label |-> labels[i], value |-> values[i]]]

(***************************************************************************)
(* DataProcessor: the stages                                               *)
(***************************************************************************)
Has(name) == name \in proc.has

StageOk(stage) == perr' = [stage |-> stage, error |-> "none"]

StageRaises(stage, error) ==
    /\ perr' = [stage |-> stage, error |-> error]
    /\ UNCHANGED proc

DropNa_InPlace ==
    LET notnull(r) == r.review # Null
        realistic(r) == r.minutes < YEAR_MINUTES /\ r.minutes > 0
        steps(r) == r.n_steps > 0
    IN  /\ proc' = [proc EXCEPT
                !.has = @ \cup {"df_interactions_nna", "df_recipes_nna"},
                !.df_interactions = SelectSeq(proc.df_interactions, notnull),
                !.df_recipes =
                    SelectSeq(SelectSeq(proc.df_recipes, realistic), steps),
                !.df_interactions_nna = SelectSeq(proc.df_interactions, notnull),
                !.df_recipes_nna =
                    SelectSeq(SelectSeq(proc.df_recipes, realistic), steps)]
        /\ StageOk("drop_na")

DropNa ==
    LET notnull(r) == r.review # Null
        realistic(r) == r.minutes < YEAR_MINUTES /\ r.minutes > 0
        steps(r) == r.n_steps > 0
    IN  /\ proc' = [proc EXCEPT
                !.has = @ \cup {"df_interactions_nna", "df_recipes_nna"},
                !.df_interactions_nna = SelectSeq(proc.df_interactions, notnull),
                !.df_recipes_nna =
                    SelectSeq(SelectSeq(proc.df_recipes, realistic), steps)]
        /\ StageOk("drop_na")

IsShort_Strict(r) == r.minutes < MEDIUM_LIM

IsShort(r) == r.minutes <= MEDIUM_LIM

IsMedium(r) == r.minutes > MEDIUM_LIM /\ r.minutes <= LONG_LIM

IsLong(r) == r.minutes > LONG_LIM

SplitMinutes ==
    LET short(r) == IsShort(r)
        medium(r) == IsMedium(r)
        long(r) == IsLong(r)
    IN  IF ~Has("df_recipes_nna")
        THEN StageRaises("split_minutes", "AttributeError")
        ELSE /\ proc' = [proc EXCEPT
                    !.has = @ \cup {"df_recipes_nna_short",
                                    "df_recipes_nna_medium",
                                    "df_recipes_nna_long"},
                    !.df_recipes_nna_short = SelectSeq(proc.df_recipes_nna, short),
                    !.df_recipes_nna_medium = SelectSeq(proc.df_recipes_nna, medium),
                    !.df_recipes_nna_long = SelectSeq(proc.df_recipes_nna, long)]
             /\ StageOk("split_minutes")

\* total_nt is assigned before the first cleaned table is read.
MergeData ==
    IF ~Has("df_interactions_nna") \/ ~Has("df_recipes_nna_short")
    THEN /\ perr' = [stage |-> "merge_data", error |-> "AttributeError"]
         /\ proc' = [proc EXCEPT
                !.has = @ \cup {"total_nt"},
                !.total_nt = InnerJoin(proc.df_interactions, proc.df_recipes)]
    ELSE /\ proc' = [proc EXCEPT
                !.has = @ \cup {"total_nt", "total", "total_short",
                                "total_medium", "total_long"},
                !.total_nt = InnerJoin(proc.df_interactions, proc.df_recipes),
                !.total = InnerJoin(proc.df_interactions_nna, proc.df_recipes_nna),
                !.total_short = InnerJoin(proc.df_interactions_nna,
                                          proc.df_recipes_nna_short),
                !.total_medium = InnerJoin(proc.df_interactions_nna,
                                           proc.df_recipes_nna_medium),
                !.total_long = InnerJoin(proc.df_interactions_nna,
                                         proc.df_recipes_nna_long)]
         /\ StageOk("merge_data")

ComputeProportions ==
    IF ~Has("df_recipes_nna_short") \/ ~Has("total_short")
    THEN StageRaises("compute_proportions", "AttributeError")
    ELSE
    LET five(r) == r.rating = RATING_MAX
        few(r) == r.n_steps <= NB_STEPS_MAX
        short == proc.df_recipes_nna_short
        minutes == Sorted({short[i].minutes : i \in DOMAIN short})
        comptes_m == MinutesCounts(proc.total_short)
        proportions_m == MinutesCounts(SelectSeq(proc.total_short, five))
        nna == SelectSeq(proc.df_recipes_nna, few)
        steps == Sorted({nna[i].n_steps : i \in DOMAIN nna})
        comptes_s == StepsCounts(SelectSeq(proc.total, few))
        proportions_s == StepsCounts(SelectSeq(SelectSeq(proc.total, few), five))
    IN  IF NpDivideRaises(proportions_m, comptes_m)
           \/ NpDivideRaises(proportions_s, comptes_s)
        THEN StageRaises("compute_proportions", "ValueError")
        ELSE LET proportion_m == NpDivide(proportions_m, comptes_m)
                 proportion_s == NpDivide(proportions_s, comptes_s)
             IN  IF FrameRaises(minutes, proportion_m)
                    \/ FrameRaises(steps, proportion_s)
                 THEN StageRaises("compute_proportions", "ShapeError")
                 ELSE /\ proc' = [proc EXCEPT
                            !.has = @ \cup {"df_proportion_m", "df_proportion_s"},
                            !.df_proportion_m = Frame(minutes, proportion_m),
                            !.df_proportion_s = Frame(steps, proportion_s)]
                      /\ StageOk("compute_proportions")

(***************************************************************************)
(* DataProcessor: the loaded tables and the specification                  *)
(***************************************************************************)
\* How many interaction rows the raw table holds.
MaxInteractions == 2

RecipeIds == {1, 2}
UnknownRecipe == 3

RecipeKinds ==
    {[minutes |-> 0, n_steps |-> 5], [minutes |-> 50, n_steps |-> 5],
     [minutes |-> 50, n_steps |-> 0], [minutes |-> 100, n_steps |-> 3],
     [minutes |-> 101, n_steps |-> 5], [minutes |-> 2880, n_steps |-> 41],
     [minutes |-> 2881, n_steps |-> 5], [minutes |-> 525600, n_steps |-> 5]}

ReviewKinds ==
    <<[rating |-> 5, review |-> "Great"], [rating |-> 4, review |-> "Good"],
      [rating |-> 5, review |-> Null], [rating |-> 4, review |-> " "]>>

\* The raw interaction tables: MaxInteractions rows, listed by kind.
InteractionKinds ==
    {[recipe_id |-> id, kind |-> k] :
        id \in RecipeIds \cup {UnknownRecipe}, k \in DOMAIN ReviewKinds}

KindRank(x) == (x.recipe_id - 1) * Len(ReviewKinds) + x.kind

RawInteractions ==
    {[i \in 1..MaxInteractions |->
        [user_id |-> i, recipe_id |-> f[i].recipe_id,
         rating |-> ReviewKinds[f[i].kind].rating,
         review |-> ReviewKinds[f[i].kind].review]] :
     f \in {g \in [1..MaxInteractions -> InteractionKinds] :
              \A i \in 1..(MaxInteractions - 1) :
                  KindRank(g[i]) <= KindRank(g[i + 1])}}

RawRecipes ==
    {[i \in RecipeIds |->
        [recipe_id |-> i, minutes |-> f[i].minutes, n_steps |-> f[i].n_steps]] :
     f \in [RecipeIds -> RecipeKinds]}

\* DataProcessor(): load_data has returned the two raw tables.
Loaded(interactions, recipes) ==
    [has |-> {"df_interactions", "df_recipes"},
     df_interactions |-> interactions, df_recipes |-> recipes,
     df_interactions_nna |-> <<>>, df_recipes_nna |-> <<>>,
     df_recipes_nna_short |-> <<>>, df_recipes_nna_medium |-> <<>>,
     df_recipes_nna_long |-> <<>>,
     total_nt |-> <<>>, total |-> <<>>, total_short |-> <<>>,
     total_medium |-> <<>>, total_long |-> <<>>,
     df_proportion_m |-> <<>>, df_proportion_s |-> <<>>,
     df_user |-> {}, recipe_analyzer |-> NoValue]

InitProc ==
    /\ \E interactions \in RawInteractions, recipes \in RawRecipes :
          proc = Loaded(interactions, recipes)
    /\ perr = NoErr
    /\ built = FALSE
    /\ nlp = NoModel
    /\ corpus = [c \in Categories |-> <<"">>]
    /\ top_ingredients = <<>>
    /\ cache = EmptyMap
    /\ made = EmptyMap
    /\ raised = EmptyBag
    /\ served = EmptyMap
    /\ lastCall = NoCall
    /\ thr = Idle
    /\ NoFiles

NextProc ==
    \/ DropNa /\ UNCHANGED <<avars, thr>> /\ UNCHANGED xvars
    \/ SplitMinutes /\ UNCHANGED <<avars, thr>> /\ UNCHANGED xvars
    \/ MergeData /\ UNCHANGED <<avars, thr>> /\ UNCHANGED xvars
    \/ ComputeProportions /\ UNCHANGED <<avars, thr>> /\ UNCHANGED xvars

SpecProc == InitProc /\ [][NextProc]_vars

(***************************************************************************)
(* DataProcessor: process_recipes, user_df and the whole pipeline          *)
(***************************************************************************)
\* A float column value: null, or the square root of num / den.
NullValue == [kind |-> "null"]
Float(num, den) == [kind |-> "float", num |-> num, den |-> den]

RECURSIVE Sum(_)
Sum(xs) == IF xs = <<>> THEN 0 ELSE Head(xs) + Sum(Tail(xs))

\* pl.col("rating").std(): the sample standard deviation (ddof = 1), null
\* for fewer than two values.  n * (n - 1) * variance = n * sum(x^2) - sum(x)^2.
Std(xs) ==
    LET n == Len(xs)
    IN  IF n < 2 THEN NullValue
        ELSE Float(n * Sum([i \in DOMAIN xs |-> xs[i] * xs[i]]) - Sum(xs) * Sum(xs),
                   n * (n - 1))

\* .fill_nan(0) and .fill_null(0)
FillNan(x) == IF x.kind = "nan" THEN Float(0, 1) ELSE x
FillNull(x) == IF x.kind = "null" THEN Float(0, 1) ELSE x

StdRating_NoFill(xs) == Std(xs)

\* std_rating of one group after the with_columns of user_df.
StdRating(xs) == FillNull(FillNan(Std(xs)))

\* len(review.split(" "))
WordCount(review) == IF review = " " THEN 2 ELSE 1

\* The aggregates of one group; a mean is <<sum, count>>.
UserRow(user_id, rows) ==
    [user_id |-> user_id,
     nb_reviews |-> Len(rows),
     mean_rating |-> <<Sum([i \in DOMAIN rows |-> rows[i].rating]), Len(rows)>>,
     std_rating |-> StdRating([i \in DOMAIN rows |-> rows[i].rating]),
     review_length |-> <<Sum([i \in DOMAIN rows |-> WordCount(rows[i].review)]),
                         Len(rows)>>,
     mean_time |-> <<Sum([i \in DOMAIN rows |-> rows[i].minutes]), Len(rows)>>]

\* total.group_by("user_id").agg(...): one row per user_id; group_by yields
\* the groups in no particular order, so df_user is kept as the set of rows.
GroupByUser(total) ==
    {LET mine(r) == r.user_id = u IN UserRow(u, SelectSeq(total, mine)) :
        u \in {total[i].user_id : i \in DOMAIN total}}

UserDf ==
    IF ~Has("total")
    THEN StageRaises("user_df", "AttributeError")
    ELSE /\ proc' = [proc EXCEPT !.has = @ \cup {"df_user"},
                                 !.df_user = GroupByUser(proc.total)]
         /\ StageOk("user_df")

\* RecipeAnalyzer(self.df_interactions, self.df_recipes, self.total): the
\* constructor keeps the three tables it is given; it raises when one of its
\* precomputations does, and then the attribute is not assigned.
ProcessRecipes ==
    IF ~Has("total")
    THEN StageRaises("process_recipes", "AttributeError")
    ELSE \E constructed \in BOOLEAN :
            IF constructed
            THEN /\ proc' = [proc EXCEPT
                        !.has = @ \cup {"recipe_analyzer"},
                        !.recipe_analyzer =
                            [kind |-> "RecipeAnalyzer",
                             df_interaction |-> proc.df_interactions,
                             df_recipe |-> proc.df_recipes,
                             df_total |-> proc.total]]
                 /\ StageOk("process_recipes")
            ELSE StageRaises("process_recipes", "ValueError")

\* save_data: the attributes it reads and the files it writes, in order;
\* the analyzer is written by recipe_analyzer.save.
SaveSteps ==
    <<[attr |-> "df_interactions", file |-> "initial_interactions.parquet"],
      [attr |-> "df_interactions_nna", file |-> "processed_interactions.parquet"],
      [attr |-> "df_recipes", file |-> "initial_recipes.parquet"],
      [attr |-> "df_recipes_nna", file |-> "processed_recipes.parquet"],
      [attr |-> "total_nt", file |-> "total_nt.parquet"],
      [attr |-> "total", file |-> "total.parquet"],
      [attr |-> "total_short", file |-> "short.parquet"],
      [attr |-> "df_proportion_m", file |-> "proportion_m.parquet"],
      [attr |-> "df_proportion_s", file |-> "proportion_s.parquet"],
      [attr |-> "recipe_analyzer", file |-> "recipe_analyzer.pkl"],
      [attr |-> "df_user", file |-> "user.parquet"]>>

\* The steps save_data completes: all before the first attribute that the
\* processor does not have, whose read is an AttributeError.
StepsDone(has) ==
    IF \E i \in DOMAIN SaveSteps : SaveSteps[i].attr \notin has
    THEN (CHOOSE i \in DOMAIN SaveSteps :
             /\ SaveSteps[i].attr \notin has
             /\ \A j \in 1..(i - 1) : SaveSteps[j].attr \in has) - 1
    ELSE Len(SaveSteps)

SaveData ==
    LET n == StepsDone(proc.has)
        written == {SaveSteps[i].file : i \in 1..n}
    IN  /\ disk' = [files |-> disk.files \cup written]
        /\ output' = [kind |-> "save_data", written |-> written,
                      analyzer_saves |->
                          IF "recipe_analyzer.pkl" \in written THEN 1 ELSE 0]
        /\ perr' = [stage |-> "save_data",
                    error |-> IF n < Len(SaveSteps) THEN "AttributeError"
                              ELSE "none"]
        /\ UNCHANGED <<avars, thr, proc, session, loggers, loaded, input>>

\* The tables load_data returned to the pipeline: the first row's user is 1.
UserIds == {1, 2}

PipelineReviews ==
    {[rating |-> 5, review |-> "Great"], [rating |-> 4, review |-> " "],
     [rating |-> 5, review |-> Null]}

PipelineInteractions ==
    {f \in [1..MaxInteractions ->
              [user_id : UserIds, recipe_id : RecipeIds,
               rating : {4, 5}, review : {"Great", " ", Null}]] :
        /\ f[1].user_id = 1
        /\ \A i \in DOMAIN f :
              [rating |-> f[i].rating, review |-> f[i].review] \in PipelineReviews}

PipelineRecipes ==
    {<<[recipe_id |-> 1, minutes |-> 50, n_steps |-> 5],
       [recipe_id |-> 2, minutes |-> m, n_steps |-> 5]>> : m \in {0, 101}}

InitPipeline ==
    /\ \E interactions \in PipelineInteractions, recipes \in PipelineRecipes :
          /\ proc = Loaded(interactions, recipes)
          /\ input = [kind |-> "load_data", df_interactions |-> interactions,
                      df_recipes |-> recipes]
    /\ perr = NoErr
    /\ output = NoValue
    /\ disk = NoDisk
    /\ session = NoSession
    /\ loggers = NoLoggers
    /\ loaded = NoValue
    /\ built = FALSE
    /\ nlp = NoModel
    /\ corpus = [c \in Categories |-> <<"">>]
    /\ top_ingredients = <<>>
    /\ cache = EmptyMap
    /\ made = EmptyMap
    /\ raised = EmptyBag
    /\ served = EmptyMap
    /\ lastCall = NoCall
    /\ thr = Idle

NextPipeline ==
    \/ DropNa /\ UNCHANGED <<avars, thr>> /\ UNCHANGED xvars
    \/ SplitMinutes /\ UNCHANGED <<avars, thr>> /\ UNCHANGED xvars
    \/ MergeData /\ UNCHANGED <<avars, thr>> /\ UNCHANGED xvars
    \/ ComputeProportions /\ UNCHANGED <<avars, thr>> /\ UNCHANGED xvars
    \/ ProcessRecipes /\ UNCHANGED <<avars, thr>> /\ UNCHANGED xvars
    \/ UserDf /\ UNCHANGED <<avars, thr>> /\ UNCHANGED xvars
    \/ SaveData

SpecPipeline == InitPipeline /\ [][NextPipeline]_vars

(***************************************************************************)
(* Persistence: __getstate__, pickle, __setstate__                         *)
(***************************************************************************)
PICKLE_FILE == "recipe_analyzer.pkl"

\* self.__dict__: the tables are held as the texts their queries select.
ObjectDict ==
    [tables |-> corpus, nlp |-> nlp, stop_words |-> StopWords,
     top_ingredients |-> top_ingredients, _cache |-> cache]

GetState_DropCache(d) == [d EXCEPT !.nlp = NoModel, !._cache = EmptyMap]

\* __getstate__: a copy of __dict__ without the spaCy model.
GetState(d) == [d EXCEPT !.nlp = NoModel]

GetStateRun_NoCopy(d) ==
    [returned |-> [d EXCEPT !.nlp = NoModel], self |-> [d EXCEPT !.nlp = NoModel]]

\* A run of __getstate__ on the object whose __dict__ is d: the state it
\* returns and the __dict__ it leaves.  state is a copy of __dict__, so the
\* assignment state["nlp"] = None is not one to self.nlp.
GetStateRun(d) == [returned |-> GetState(d), self |-> d]

\* pickle.dump writes the values; the objects pickle.load builds from them
\* are new ones, numbered below the objects the analyzer made itself.
Unpickled(p) == [p EXCEPT !.id = <<p.id[1], 0 - (p.id[2] + 2)>>]

PickleDump(state) == [bytes |-> state]

PickleLoad(file) ==
    [file.bytes EXCEPT
        !._cache = [k \in DOMAIN file.bytes._cache |->
                        Unpickled(file.bytes._cache[k])]]

\* __setstate__: take the pickled attributes, reload the spaCy model.
SetState(state) == [state EXCEPT !.nlp = SPACY_MODEL]

\* save(filepath)
Save ==
    /\ built
    /\ LET run == GetStateRun(ObjectDict)
       IN  /\ disk' = [files |-> {PICKLE_FILE}, pickle |-> PickleDump(run.returned)]
           /\ nlp' = run.self.nlp
    /\ UNCHANGED <<built, corpus, top_ingredients, cache, made, raised, served,
                   lastCall, thr, proc, perr, session, loggers, loaded, input,
                   output>>

\* RecipeAnalyzer.load(filepath)
Load ==
    /\ loaded' = IF PICKLE_FILE \in disk.files
                 THEN [kind |-> "analyzer", dict |-> SetState(PickleLoad(disk.pickle))]
                 ELSE [kind |-> "FileNotFoundError"]
    /\ UNCHANGED <<avars, thr, proc, perr, disk, session, loggers, input, output>>

InitPickle ==
    /\ InitAnalyzer
    /\ thr = Idle
    /\ proc = NoProc
    /\ perr = NoErr
    /\ NoFiles

NextPickle ==
    \/ Construct /\ UNCHANGED <<thr, proc, perr>> /\ UNCHANGED xvars
    \/ CallPlotTopIngredients /\ UNCHANGED <<thr, proc, perr>> /\ UNCHANGED xvars
    \/ CallGetReviewsForRecipes /\ UNCHANGED <<thr, proc, perr>> /\ UNCHANGED xvars
    \/ Save
    \/ Load

SpecPickle == InitPickle /\ [][NextPickle]_vars

(***************************************************************************)
(* Text cleaning: _clean_text and _clean_texts_batch on two texts          *)
(***************************************************************************)
TextValues ==
    {"", " ", Null, NaN, "Tasty Soups", "Loved it 2x", "great recipe ok",
     "tasty soup"}

NotRun == [done |-> FALSE, tokens |-> <<>>]

Ran(tokens) == [done |-> TRUE, tokens |-> tokens]

InitText ==
    /\ input \in [kind : {"texts"}, t1 : TextValues, t2 : TextValues]
    /\ output = [kind |-> "cleaned", first |-> NotRun, second |-> NotRun,
                 batch |-> NotRun, memo |-> {}]
    /\ disk = NoDisk
    /\ session = NoSession
    /\ loggers = NoLoggers
    /\ loaded = NoValue
    /\ built = FALSE
    /\ nlp = NoModel
    /\ corpus = [c \in Categories |-> <<"">>]
    /\ top_ingredients = <<>>
    /\ cache = EmptyMap
    /\ made = EmptyMap
    /\ raised = EmptyBag
    /\ served = EmptyMap
    /\ lastCall = NoCall
    /\ thr = Idle
    /\ proc = NoProc
    /\ perr = NoErr

\* @lru_cache: the list computed for a text is kept and returned again.
Memoized(memo, text) ==
    IF \E e \in memo : e.text = text
    THEN (CHOOSE e \in memo : e.text = text).tokens
    ELSE CleanText(text)

CallCleanTextFirst ==
    LET tokens == Memoized(output.memo, input.t1)
    IN  output' = [output EXCEPT
            !.first = Ran(tokens),
            !.memo = @ \cup {[text |-> input.t1, tokens |-> tokens]}]

CallCleanTextSecond ==
    LET tokens == Memoized(output.memo, input.t2)
    IN  output' = [output EXCEPT
            !.second = Ran(tokens),
            !.memo = @ \cup {[text |-> input.t2, tokens |-> tokens]}]

CallCleanTextsBatch ==
    output' = [output EXCEPT
        !.batch = Ran(CleanTextsBatch(<<input.t1, input.t2>>))]

tvars == <<built, nlp, corpus, top_ingredients, cache, made, raised, served,
           lastCall, thr, proc, perr, disk, session, loggers, loaded, input>>

NextText ==
    \/ CallCleanTextFirst /\ UNCHANGED tvars
    \/ CallCleanTextSecond /\ UNCHANGED tvars
    \/ CallCleanTextsBatch /\ UNCHANGED tvars

SpecText == InitText /\ [][NextText]_vars

(***************************************************************************)
(* DataProcessor(): load_data on the files of data/raw                     *)
(***************************************************************************)
PATH_INTERACTIONS == "RAW_interactions.csv"
PATH_RECIPES == "RAW_recipes.csv"

\* Path.with_suffix(".csv.zip") of a path that ends in .csv
WithSuffixCsvZip(path) == path \o ".zip"

\* What a CSV file holds: its rows, and whether every date value parses.
CsvInteractions(dates_ok) ==
    [dates_ok |-> dates_ok,
     rows |-> <<[user_id |-> 1, recipe_id |-> 1, rating |-> 5, review |-> "Great"]>>]

CsvRecipes(dates_ok) ==
    [dates_ok |-> dates_ok,
     rows |-> <<[id |-> 1, minutes |-> 50, n_steps |-> 5]>>]

\* A ZIP archive holds the CSV under the CSV's name.
Zip(member, csv) == [member |-> member, csv |-> csv]

\* The states of data/raw: every file absent, well-formed or with a date
\* that does not parse.
RawDirs ==
    {d \in [files : SUBSET {PATH_INTERACTIONS, PATH_RECIPES,
                            WithSuffixCsvZip(PATH_INTERACTIONS),
                            WithSuffixCsvZip(PATH_RECIPES)},
            ok : [{PATH_INTERACTIONS, PATH_RECIPES,
                   WithSuffixCsvZip(PATH_INTERACTIONS),
                   WithSuffixCsvZip(PATH_RECIPES)} -> BOOLEAN]] :
        \A f \in DOMAIN d.ok : f \notin d.files => d.ok[f]}

Exists(d, path) == path \in d.files

\* The CSV a path names, as it is on disk or inside its archive.
CsvAt(d, path) ==
    IF path = PATH_INTERACTIONS THEN CsvInteractions(d.ok[path])
    ELSE CsvRecipes(d.ok[path])

ZipAt(d, path, member) == Zip(member, CsvAt(d, path))

\* zip_ref.extractall(data_dir): the member is written, over a file of the
\* same name if there is one.
ExtractAll(d, zip) ==
    [files |-> d.files \cup {zip.member},
     ok |-> [d.ok EXCEPT ![zip.member] = zip.csv.dates_ok]]

ReadCsvRaises_IgnoreErrors(csv) == FALSE

\* pl.read_csv with a Datetime override: a value that does not parse is a
\* ComputeError.
ReadCsvRaises(csv) == ~csv.dates_ok

\* df_recipes.rename({"id": "recipe_id"})
RenameId(rows) ==
    [i \in DOMAIN rows |->
        [recipe_id |-> rows[i].id, minutes |-> rows[i].minutes,
         n_steps |-> rows[i].n_steps]]

NeedsZip_BothMissing(d) ==
    ~Exists(d, PATH_INTERACTIONS) /\ ~Exists(d, PATH_RECIPES)

\* if not self.path_interactions.exists() or not self.path_recipes.exists()
NeedsZip(d) == ~Exists(d, PATH_INTERACTIONS) \/ ~Exists(d, PATH_RECIPES)

\* if not path_interaction_zip.exists() or not path_recipes_zip.exists()
ZipMissing(d) ==
    \/ ~Exists(d, WithSuffixCsvZip(PATH_INTERACTIONS))
    \/ ~Exists(d, WithSuffixCsvZip(PATH_RECIPES))

\* The directory after the extraction step of load_data.
Extracted(d) ==
    IF NeedsZip(d) /\ ~ZipMissing(d)
    THEN ExtractAll(
             ExtractAll(d, ZipAt(d, WithSuffixCsvZip(PATH_INTERACTIONS),
                                 PATH_INTERACTIONS)),
             ZipAt(d, WithSuffixCsvZip(PATH_RECIPES), PATH_RECIPES))
    ELSE d

\* DataProcessor(): __init__ calls load_data; an exception leaves no object.
NewDataProcessor ==
    IF NeedsZip(disk) /\ ZipMissing(disk)
    THEN /\ perr' = [stage |-> "load_data", error |-> "FileNotFoundError"]
         /\ proc' = NoProc
         /\ UNCHANGED disk
    ELSE LET d == Extracted(disk)
             interactions == CsvAt(d, PATH_INTERACTIONS)
             recipes == CsvAt(d, PATH_RECIPES)
         IN  /\ disk' = d
             /\ IF ReadCsvRaises(interactions) \/ ReadCsvRaises(recipes)
                THEN /\ perr' = [stage |-> "load_data", error |-> "ComputeError"]
                     /\ proc' = NoProc
                ELSE /\ perr' = [stage |-> "load_data", error |-> "none"]
                     /\ proc' = Loaded(interactions.rows, RenameId(recipes.rows))

InitLoad ==
    /\ disk \in RawDirs
    /\ session = NoSession
    /\ loggers = NoLoggers
    /\ proc = NoProc
    /\ perr = NoErr
    /\ loaded = NoValue
    /\ input = NoValue
    /\ output = NoValue
    /\ built = FALSE
    /\ nlp = NoModel
    /\ corpus = [c \in Categories |-> <<"">>]
    /\ top_ingredients = <<>>
    /\ cache = EmptyMap
    /\ made = EmptyMap
    /\ raised = EmptyBag
    /\ served = EmptyMap
    /\ lastCall = NoCall
    /\ thr = Idle

NextLoad ==
    NewDataProcessor /\ UNCHANGED <<avars, thr, session, loggers, loaded, input, output>>

SpecLoad == InitLoad /\ [][NextLoad]_vars

(***************************************************************************)
(* helper.load_data_from_parquet_and_pickle and streamlit_ui.main          *)
(***************************************************************************)
\* The parquet files of data/processed, in the order they are loaded: the
\* eight of _load_all_dataframes, then the two of _load_proportions.
ParquetFiles ==
    <<"initial_interactions.parquet", "processed_interactions.parquet",
      "initial_recipes.parquet", "processed_recipes.parquet",
      "total_nt.parquet", "total.parquet", "short.parquet", "user.parquet",
      "proportion_m.parquet", "proportion_s.parquet">>

\* The names of the returned tuple's elements, in the order of the return.
ReturnNames ==
    <<"df_interactions", "df_interactions_nna", "df_recipes", "df_recipes_nna",
      "df_total_nt", "df_total", "df_total_court", "df_user",
      "proportion_m", "proportion_s", "recipe_analyzer", "data_loaded">>

\* The names main() unpacks the tuple into.
MainNames ==
    <<"df_interactions", "df_interactions_nna", "df_recipes", "df_recipes_nna",
      "df_total_nt", "df_total", "df_total_court",
      "proportion_m", "proportion_s", "recipe_analyzer", "data_loaded">>

EMPTY == "empty"
NONE == "None"

\* load_parquet_with_progress raises when the file cannot be read.
LoadParquetRaises(d, file) == file \notin d.files

\* The loads performed, up to and including the first that raises.
Attempts(d) ==
    IF \E i \in DOMAIN ParquetFiles : LoadParquetRaises(d, ParquetFiles[i])
    THEN CHOOSE i \in DOMAIN ParquetFiles :
            /\ LoadParquetRaises(d, ParquetFiles[i])
            /\ \A j \in 1..(i - 1) : ~LoadParquetRaises(d, ParquetFiles[j])
    ELSE Len(ParquetFiles)

ParquetRaises_FirstOnly(d) == LoadParquetRaises(d, ParquetFiles[1])

ParquetRaises(d) ==
    \E i \in DOMAIN ParquetFiles : LoadParquetRaises(d, ParquetFiles[i])

LoadRecipeAnalyzer_Propagate(d) ==
    IF PICKLE_FILE \in d.files
    THEN [value |-> "RecipeAnalyzer", warnings |-> 0, failed |-> FALSE, raised |-> FALSE]
    ELSE [value |-> NONE, warnings |-> 0, failed |-> TRUE, raised |-> TRUE]

\* _load_recipe_analyzer: None and one warning when RecipeAnalyzer.load raises.
LoadRecipeAnalyzer(d) ==
    IF PICKLE_FILE \in d.files
    THEN [value |-> "RecipeAnalyzer", warnings |-> 0, failed |-> FALSE, raised |-> FALSE]
    ELSE [value |-> NONE, warnings |-> 1, failed |-> TRUE, raised |-> FALSE]

Element(name, value) == [name |-> name, value |-> value]

ERROR_MESSAGE == "Error loading data: ..., please run backend/dataprocessor first"

\* The except branch: one logger.error, one st.error, empty tables.
FailurePath(loads, warnings, pickle_failed) ==
    [ret |-> [i \in DOMAIN ReturnNames |->
                Element(ReturnNames[i],
                        CASE ReturnNames[i] = "recipe_analyzer" -> NONE
                          [] ReturnNames[i] = "data_loaded" -> "False"
                          [] OTHER -> EMPTY)],
     errors |-> 1, warnings |-> warnings, st_errors |-> <<ERROR_MESSAGE>>,
     loads |-> loads, load_failed |-> (loads > 0 /\ ~pickle_failed),
     pickle_failed |-> pickle_failed]

\* load_data_from_parquet_and_pickle, its body run.
LoadDataFromParquetAndPickle(d) ==
    IF ParquetRaises(d)
    THEN FailurePath(Attempts(d), 0, FALSE)
    ELSE LET a == LoadRecipeAnalyzer(d)
         IN  IF a.raised
             THEN FailurePath(Len(ParquetFiles), a.warnings, TRUE)
             ELSE [ret |-> [i \in DOMAIN ReturnNames |->
                             Element(ReturnNames[i],
                                     CASE ReturnNames[i] = "recipe_analyzer" -> a.value
                                       [] ReturnNames[i] = "data_loaded" -> "True"
                                       [] OTHER -> ParquetFiles[i])],
                   errors |-> 0, warnings |-> a.warnings, st_errors |-> <<>>,
                   loads |-> Len(ParquetFiles), load_failed |-> FALSE,
                   pickle_failed |-> a.failed]

\* @st.cache_resource: the body runs on the first call, later calls get the
\* tuple it returned.
CachedCall(d) ==
    IF loaded.kind = "cached"
    THEN [ret |-> loaded.ret, errors |-> 0, warnings |-> 0, st_errors |-> <<>>,
          loads |-> 0, load_failed |-> FALSE, pickle_failed |-> FALSE]
    ELSE LoadDataFromParquetAndPickle(d)

\* A caller of load_data_from_parquet_and_pickle that keeps the tuple.
CallLoadData ==
    LET r == CachedCall(disk)
    IN  /\ output' = [kind |-> "load", op |-> "load_data_from_parquet_and_pickle",
                      hit |-> (loaded.kind = "cached"), call |-> r,
                      raised |-> "none"]
        /\ loaded' = [kind |-> "cached", ret |-> r.ret]
        /\ UNCHANGED <<avars, thr, proc, perr, disk, session, loggers, input>>

\* The pages main() hands to st.navigation, in order.
NavigationPages == <<"dashboard", "rating", "trends", "users_analysis",
                     "recipes_analysis">>

\* The attributes of st.session_state a page script reads inside its
\* 'if "data_loaded" in st.session_state and st.session_state.data_loaded'.
PageReads(page) ==
    CASE page = "dashboard" -> {"df_interactions", "df_recipes"}
      [] page = "rating" -> {"df_interactions_nna", "df_total", "df_total_court",
                             "proportion_m", "proportion_s"}
      [] page = "trends" -> {"df_interactions_nna"}
      [] page = "users_analysis" -> {"df_interactions_nna", "df_user",
                                     "df_interactions"}
      [] page = "recipes_analysis" -> {"df_total_nt", "df_interactions",
                                       "df_recipes", "recipe_analyzer"}

\* pg.run(): the script of the selected page; reading an attribute the
\* session does not hold is an AttributeError.
RunPage(page, state) ==
    IF "data_loaded" \in DOMAIN state /\ state["data_loaded"] = "True"
       /\ ~(PageReads(page) \subseteq DOMAIN state)
    THEN "AttributeError"
    ELSE "none"

\* The session_state after the storing block of main().
Stored(ret) ==
    [state |-> [n \in Range(MainNames) |->
                  ret[CHOOSE i \in DOMAIN MainNames : MainNames[i] = n].value]]

\* main(): the tuple is unpacked into MainNames, a tuple of another length
\* being a ValueError; a session without the key data_loaded gets the
\* unpacked values under a spinner, between two log messages; then the
\* navigation is set up and the selected page run.
Main ==
    LET r == CachedCall(disk)
        bad == Len(r.ret) # Len(MainNames)
        found == "data_loaded" \in DOMAIN session.state
        stores == ~bad /\ ~found
        after == IF stores THEN Stored(r.ret) ELSE session
    IN  /\ \E page \in IF bad THEN {"none"} ELSE Range(NavigationPages) :
              output' = [kind |-> "load", op |-> "main",
                         hit |-> (loaded.kind = "cached"), call |-> r,
                         raised |-> IF bad THEN "ValueError" ELSE "none",
                         found |-> found, before |-> session,
                         spinner |-> stores,
                         storage_logs |-> IF stores THEN 2 ELSE 0,
                         navigation |-> IF bad THEN <<>> ELSE NavigationPages,
                         runs |-> IF bad THEN 0 ELSE 1,
                         page |-> page,
                         page_raised |-> IF bad THEN "none"
                                         ELSE RunPage(page, after.state)]
        /\ session' = after
        /\ loaded' = [kind |-> "cached", ret |-> r.ret]
        /\ UNCHANGED <<avars, thr, proc, perr, disk, loggers, input>>

InitHelper ==
    /\ disk \in [files : SUBSET (Range(ParquetFiles) \cup {PICKLE_FILE})]
    /\ session = NoSession
    /\ loggers = NoLoggers
    /\ loaded = NoValue
    /\ input = NoValue
    /\ output = NoValue
    /\ proc = NoProc
    /\ perr = NoErr
    /\ built = FALSE
    /\ nlp = NoModel
    /\ corpus = [c \in Categories |-> <<"">>]
    /\ top_ingredients = <<>>
    /\ cache = EmptyMap
    /\ made = EmptyMap
    /\ raised = EmptyBag
    /\ served = EmptyMap
    /\ lastCall = NoCall
    /\ thr = Idle

NextHelper ==
    \/ CallLoadData
    \/ Main

SpecHelper == InitHelper /\ [][NextHelper]_vars

(***************************************************************************)
(* RecipeAnalyzer._compute_top_ingredients                                 *)
(***************************************************************************)
\* An ingredients cell is a text such as "['salt', 'Onions']", held as its
\* pieces: the characters [ ] ' , and space, and the runs between them.
Join(items, sep) ==
    Flatten([i \in DOMAIN items |->
                (IF i = 1 THEN <<>> ELSE sep) \o <<"'", items[i], "'">>])

IngredientsText(items, sep) == <<"[">> \o Join(items, sep) \o <<"]">>

\* str.replace_all(r"[\[\]']", "")
ReplaceAllBrackets(text) ==
    LET kept(piece) == piece \notin {"[", "]", "'"}
    IN  SelectSeq(text, kept)

\* str.split(", "): the text between the occurrences of comma-space; a
\* comma that no space follows stays inside its part.
RECURSIVE SplitFrom(_, _, _)
SplitFrom(text, i, part) ==
    IF i > Len(text) THEN <<part>>
    ELSE IF text[i] = "," /\ i < Len(text) /\ text[i + 1] = " "
         THEN <<part>> \o SplitFrom(text, i + 2, "")
         ELSE SplitFrom(text, i + 1, part \o text[i])

Split(text) == SplitFrom(text, 1, "")

EXCLUDED ==
    {"salt", "water", "oil", "sugar", "pepper", "butter", "flour", "olive oil",
     "vegetable oil", "all-purpose flour", "cup", "tablespoon",
     "salt and pepper", "teaspoon", "pound", "ounce", "gram", "kilogram",
     "milliliter", "liter", "black pepper"}

MIN_LEN == 2

\* The ingredient spellings of the modelled recipes.
IngredientNames == {"salt", "Salt", "Onions", "onion", "Tomato"}

LowercaseName(x) ==
    CASE x = "Salt" -> "salt"
      [] x = "Onions" -> "onions"
      [] x = "Tomato" -> "tomato"
      [] OTHER -> x

SingularName(x) ==
    CASE x = "onions" -> "onion"
      [] OTHER -> x

\* The cell values a split can yield: a name, or two names around a comma.
IsPair(x) == \E a \in IngredientNames, b \in IngredientNames : x = a \o "," \o b
PairOf(x) ==
    CHOOSE ab \in IngredientNames \X IngredientNames : x = ab[1] \o "," \o ab[2]

\* str.to_lowercase()
ToLowercase(x) ==
    IF IsPair(x)
    THEN LowercaseName(PairOf(x)[1]) \o "," \o LowercaseName(PairOf(x)[2])
    ELSE LowercaseName(x)

\* p.singular_noun(x) if p.singular_noun(x) else x, on a lowercase value:
\* inflect singularizes the last word.
Singular(x) ==
    IF \E a \in IngredientNames, b \in IngredientNames :
           x = LowercaseName(a) \o "," \o LowercaseName(b)
    THEN LET ab == CHOOSE ab \in IngredientNames \X IngredientNames :
                       x = LowercaseName(ab[1]) \o "," \o LowercaseName(ab[2])
         IN  LowercaseName(ab[1]) \o "," \o SingularName(LowercaseName(ab[2]))
    ELSE SingularName(x)

\* The filter of the exploded rows.
KeepIngredient(x) == x \notin EXCLUDED /\ x # "" /\ Len(x) > MIN_LEN

\* The exploded, filtered rows with the column with_columns adds.
IngredientsCleaned(df_recipe) ==
    LET exploded == Flatten([i \in DOMAIN df_recipe |->
                                Split(ReplaceAllBrackets(df_recipe[i]))])
        rows == SelectSeq(exploded, KeepIngredient)
    IN  [i \in DOMAIN rows |->
            [ingredients |-> rows[i],
             ingredients_singular |-> Singular(ToLowercase(rows[i]))]]

\* group_by("ingredients")
GroupKey(row) == row.ingredients

\* .agg(pl.len().alias("count")): one row per key.
IngredientsGroups(cleaned) ==
    {[ingredients |-> k,
      count |-> Cardinality({i \in DOMAIN cleaned : GroupKey(cleaned[i]) = k})] :
        k \in {GroupKey(cleaned[i]) : i \in DOMAIN cleaned}}

\* .sort("count", descending=True) of groups that group_by yields in no
\* particular order: every descending arrangement.
SortedDescending(groups) ==
    {t \in [1..Cardinality(groups) -> groups] :
        /\ \A i, j \in DOMAIN t : i # j => t[i] # t[j]
        /\ \A i \in 1..(Cardinality(groups) - 1) : t[i].count >= t[i + 1].count}

ComputeTopIngredients ==
    /\ \E t \in SortedDescending(IngredientsGroups(IngredientsCleaned(input.df_recipe))) :
          output' = [kind |-> "top_ingredients", rows |-> t]
    /\ UNCHANGED <<avars, thr, proc, perr, disk, session, loggers, loaded, input>>

\* The recipes an analyzer is constructed over: two ingredients cells.
Separators == {<<",", " ">>, <<",">>}

IngredientLists == {<<a, b>> : a \in IngredientNames, b \in IngredientNames}

InitIngredients ==
    /\ \E sep \in Separators, r1 \in IngredientLists, r2 \in IngredientLists :
          input = [kind |-> "recipes", items |-> <<r1, r2>>,
                   df_recipe |-> <<IngredientsText(r1, sep), IngredientsText(r2, sep)>>]
    /\ output = NoValue
    /\ disk = NoDisk
    /\ session = NoSession
    /\ loggers = NoLoggers
    /\ loaded = NoValue
    /\ proc = NoProc
    /\ perr = NoErr
    /\ built = FALSE
    /\ nlp = NoModel
    /\ corpus = [c \in Categories |-> <<"">>]
    /\ top_ingredients = <<>>
    /\ cache = EmptyMap
    /\ made = EmptyMap
    /\ raised = EmptyBag
    /\ served = EmptyMap
    /\ lastCall = NoCall
    /\ thr = Idle

NextIngredients == ComputeTopIngredients

SpecIngredients == InitIngredients /\ [][NextIngredients]_vars

(***************************************************************************)
(* Text cleaning: values that are not texts                                *)
(***************************************************************************)
\* hash(text), which lru_cache takes of its arguments: a list has none.
Hashable(text) == text # ListValue

\* A call of the lru_cache wrapper of _clean_text: the key is made from the
\* arguments before the body runs.
CleanTextCall(text) ==
    IF ~Hashable(text)
    THEN [done |-> TRUE, raised |-> "TypeError", tokens |-> <<>>]
    ELSE [done |-> TRUE, raised |-> "none", tokens |-> CleanText(text)]

AnyValues == {"", " ", Null, NaN, Number, ListValue, "Tasty Soups"}

InitValues ==
    /\ input \in [kind : {"values"}, x : AnyValues, t1 : AnyValues, t2 : AnyValues]
    /\ output = [kind |-> "cleaned",
                 single |-> [done |-> FALSE, raised |-> "none", tokens |-> <<>>],
                 batch |-> [done |-> FALSE, raised |-> "none", tokens |-> <<>>]]
    /\ disk = NoDisk
    /\ session = NoSession
    /\ loggers = NoLoggers
    /\ loaded = NoValue
    /\ built = FALSE
    /\ nlp = NoModel
    /\ corpus = [c \in Categories |-> <<"">>]
    /\ top_ingredients = <<>>
    /\ cache = EmptyMap
    /\ made = EmptyMap
    /\ raised = EmptyBag
    /\ served = EmptyMap
    /\ lastCall = NoCall
    /\ thr = Idle
    /\ proc = NoProc
    /\ perr = NoErr

CallCleanText ==
    /\ output' = [output EXCEPT !.single = CleanTextCall(input.x)]
    /\ UNCHANGED tvars

\* _clean_texts_batch is not memoized: its argument is only iterated.
CallBatch ==
    /\ output' = [output EXCEPT
          !.batch = [done |-> TRUE, raised |-> "none",
                     tokens |-> CleanTextsBatch(<<input.t1, input.t2>>)]]
    /\ UNCHANGED tvars

NextValues == CallCleanText \/ CallBatch

SpecValues == InitValues /\ [][NextValues]_vars

(***************************************************************************)
(* utils/logger.py: BaseLogger, TimeLogger, RotLogger, get_logger          *)
(***************************************************************************)
LoggerClasses == {"BaseLogger", "TimeLogger", "RotLogger"}

\* The input_name arguments of the modelled calls.
LogNames == {NONE, "jobs"}

Levels == <<"DEBUG", "INFO", "WARNING", "ERROR", "CRITICAL">>

\* logging's numeric order of the levels.
LevelNo(level) == CHOOSE i \in DOMAIN Levels : Levels[i] = level

\* How many messages are logged in a behaviour.
MaxMessages == 2

\* How many times _init_logger is called again in a behaviour.
MaxReinits == 1

\* datetime.now().strftime(...) of the modelled run.
TIMESTAMP == "01-11-2026_09-00-00"

\* _setup_handler of each class: the log path (its handler is on that path).
LogPath(cls, input_name) ==
    LET name == IF input_name = NONE THEN "app" ELSE input_name
    IN  CASE cls = "BaseLogger" -> "logs/" \o name \o ".log"
          [] cls = "TimeLogger" -> "logs/" \o name \o "/" \o TIMESTAMP \o ".log"
          [] cls = "RotLogger" -> "logs/" \o name \o "/" \o name \o ".log"

\* cls._instance: the attribute of the class itself when it has been
\* assigned, else the one of BaseLogger, which subclasses inherit; 0 is None.
Lookup(own, cls) == IF own[cls] # 0 THEN own[cls] ELSE own["BaseLogger"]

\* _init_logger on object id.  The file handler opens its file; the two
\* handlers are attached only when 'SystemLogger' has none.
InitLogger(lg, id, input_name) ==
    LET path == LogPath(lg.objects[id].cls, input_name)
    IN  [lg EXCEPT
            !.objects[id] = [@ EXCEPT !.has_error = FALSE, !.log_path = path,
                                      !.sent = <<>>, !.inits = @ + 1],
            !.files = IF path \in DOMAIN lg.files THEN lg.files
                      ELSE Put(lg.files, path, <<>>),
            !.handlers = IF lg.handlers = <<>>
                         THEN <<[kind |-> "file", path |-> path, level |-> "DEBUG"],
                                [kind |-> "console", path |-> "stderr",
                                 level |-> "INFO"]>>
                         ELSE lg.handlers]

New_InitEachCall(lg, cls, input_name) ==
    IF lg.instance[cls] = 0 /\ lg.instance["BaseLogger"] = 0
    THEN LET id == Len(lg.objects) + 1
             made_ == [lg EXCEPT
                        !.objects = Append(@, [cls |-> cls, has_error |-> FALSE,
                                               log_path |-> "", sent |-> <<>>,
                                               inits |-> 0]),
                        !.instance[cls] = id]
         IN  InitLogger(made_, id, input_name)
    ELSE InitLogger(lg, IF lg.instance[cls] # 0 THEN lg.instance[cls]
                        ELSE lg.instance["BaseLogger"], input_name)

\* __new__(cls, input_name)
New(lg, cls, input_name) ==
    IF Lookup(lg.instance, cls) = 0
    THEN LET id == Len(lg.objects) + 1
             made_ == [lg EXCEPT
                        !.objects = Append(@, [cls |-> cls, has_error |-> FALSE,
                                               log_path |-> "", sent |-> <<>>,
                                               inits |-> 0]),
                        !.instance[cls] = id]
         IN  InitLogger(made_, id, input_name)
    ELSE lg

HasErrorAfter_LastLevel(has_error, level) == level = "ERROR"

\* error() sets _has_error; no other method assigns it.
HasErrorAfter(has_error, level) == has_error \/ level = "ERROR"

\* self.logger.<level>(msg): every handler whose level admits the record
\* emits it, a file handler into its file.
Emit(lg, id, level) ==
    LET admits(h) == LevelNo(level) >= LevelNo(h.level)
        record == [level |-> level, by |-> id]
    IN  [lg EXCEPT
            !.files = [p \in DOMAIN lg.files |->
                         IF \E i \in DOMAIN lg.handlers :
                               /\ lg.handlers[i].kind = "file"
                               /\ lg.handlers[i].path = p
                               /\ admits(lg.handlers[i])
                         THEN Append(lg.files[p], record) ELSE lg.files[p]],
            !.console = IF \E i \in DOMAIN lg.handlers :
                               lg.handlers[i].kind = "console" /\ admits(lg.handlers[i])
                        THEN Append(@, record) ELSE @]

\* The state once the module has been imported: logger = RotLogger("app").
Imported ==
    New([instance |-> [c \in LoggerClasses |-> 0], objects |-> <<>>,
         handlers |-> <<>>, files |-> EmptyMap, console |-> <<>>,
         returned |-> [c \in LoggerClasses |-> {}], logged |-> 0,
         reinits |-> 0],
        "RotLogger", "app")

\* logger = RotLogger("app")
MODULE_LOGGER == 1

LogFrame == UNCHANGED <<avars, thr, proc, perr, disk, session, loaded, input>>

\* cls(input_name)
Construct_Logger ==
    /\ \E cls \in LoggerClasses, input_name \in LogNames :
          LET lg == New(loggers, cls, input_name)
              ret == Lookup(lg.instance, cls)
          IN  /\ loggers' = [lg EXCEPT !.returned[cls] = @ \cup {ret}]
              /\ output' = [kind |-> "logger", op |-> "__new__", cls |-> cls,
                            on |-> 0, ret |-> ret]
    /\ LogFrame

\* get_logger()
GetLogger ==
    /\ output' = [kind |-> "logger", op |-> "get_logger", cls |-> "RotLogger",
                  on |-> 0, ret |-> MODULE_LOGGER]
    /\ UNCHANGED loggers
    /\ LogFrame

\* info(), debug(), warning(), error(), critical() on a logger in hand.
LogMessage ==
    /\ loggers.logged < MaxMessages
    /\ \E id \in DOMAIN loggers.objects, i \in DOMAIN Levels :
          LET level == Levels[i]
              lg == Emit(loggers, id, level)
          IN  /\ loggers' = [lg EXCEPT
                    !.objects[id].has_error = HasErrorAfter(@, level),
                    !.objects[id].sent = Append(@, level),
                    !.logged = @ + 1]
              /\ output' = [kind |-> "logger", op |-> level, cls |-> "",
                            on |-> id, ret |-> NONE]
    /\ LogFrame

\* has_errors()
HasErrors ==
    /\ \E id \in DOMAIN loggers.objects :
          output' = [kind |-> "logger", op |-> "has_errors", cls |-> "",
                     on |-> id, ret |-> loggers.objects[id].has_error]
    /\ UNCHANGED loggers
    /\ LogFrame

\* get_log_path()
GetLogPath ==
    /\ \E id \in DOMAIN loggers.objects :
          output' = [kind |-> "logger", op |-> "get_log_path", cls |-> "",
                     on |-> id, ret |-> loggers.objects[id].log_path]
    /\ UNCHANGED loggers
    /\ LogFrame

\* _init_logger(input_name) called on a logger in hand.
CallInitLogger ==
    /\ loggers.reinits < MaxReinits
    /\ \E id \in DOMAIN loggers.objects, input_name \in LogNames :
          /\ loggers' = [InitLogger(loggers, id, input_name) EXCEPT !.reinits = @ + 1]
          /\ output' = [kind |-> "logger", op |-> "_init_logger", cls |-> "",
                        on |-> id, ret |-> NONE]
    /\ LogFrame

InitLog ==
    /\ loggers = Imported
    /\ output = NoValue
    /\ disk = NoDisk
    /\ session = NoSession
    /\ loaded = NoValue
    /\ input = NoValue
    /\ proc = NoProc
    /\ perr = NoErr
    /\ built = FALSE
    /\ nlp = NoModel
    /\ corpus = [c \in Categories |-> <<"">>]
    /\ top_ingredients = <<>>
    /\ cache = EmptyMap
    /\ made = EmptyMap
    /\ raised = EmptyBag
    /\ served = EmptyMap
    /\ lastCall = NoCall
    /\ thr = Idle

\* The program's use of the loggers: constructors and the public methods.
NextLog == Construct_Logger \/ GetLogger \/ LogMessage \/ HasErrors \/ GetLogPath

SpecLog == InitLog /\ [][NextLog]_vars

\* The same with _init_logger called again on an existing logger.
NextLogInit == NextLog \/ CallInitLogger

SpecLogInit == InitLog /\ [][NextLogInit]_vars

(***************************************************************************)
(* Claims about the artifact cache, one caller (Spec)                      *)
(***************************************************************************)
FigureOps ==
    {"plot_word_cloud", "plot_tfidf", "compare_frequency_and_tfidf",
     "plot_top_ingredients"}

TextOps == {"plot_word_cloud", "plot_tfidf", "compare_frequency_and_tfidf"}

FigureKeys(f) == {k \in DOMAIN f : k[1] \in {"word_cloud", "tfidf", "compare",
                                             "top_ingredients"}}

C3_FingerprintCoversParameters ==
    /\ (lastCall.op \in TextOps /\ lastCall.outcome \in {"cached", "computed"})
          => /\ lastCall.ret.src = SwitchFilter(lastCall.rating_filter)
             /\ lastCall.ret.n = lastCall.n
             /\ lastCall.ret.title = lastCall.title
    /\ lastCall.op = "get_reviews_for_recipes"
          => lastCall.ret.data = lastCall.recipe_ids

\* C4: a computation that raises propagates (the caller gets no artifact) and
\* stores nothing under its fingerprint; every cached entry was stored by a
\* computation that completed, so a call after the failure computes again
\* until one completes.
C4_RaisedComputationNotCached ==
    /\ lastCall.outcome = "raised"
          => /\ lastCall.key \notin DOMAIN cache
             /\ lastCall.ret = NoArtifact
    /\ \A k \in DOMAIN cache : Count(made, k) >= 1 /\ cache[k].kind # "none"
    /\ \A k \in BagToSet(raised) :
          k \in DOMAIN cache => cache[k].id[2] < made[k]

\* The same computation raised, stored nothing, was run again by the next
\* call with the same parameters, and raised again.
C4_Witness ==
    /\ lastCall.outcome = "raised"
    /\ lastCall.op \in TextOps
    /\ CopiesIn(lastCall.key, raised) >= 2
    /\ lastCall.key \notin DOMAIN cache

\* C6: whenever the token list the category filter selects is empty the call
\* returns the 'No text available' placeholder and does not raise, and
\* __init__ over blank reviews completes.
C6_EmptyTokensGivePlaceholder ==
    /\ (/\ lastCall.op \in TextOps
        /\ cache[SwitchFilter(lastCall.rating_filter)].data = <<>>)
          => /\ lastCall.outcome # "raised"
             /\ lastCall.ret.kind = "placeholder"
             /\ lastCall.ret.marker = "No text available"
    /\ (lastCall.op = "__init__" /\ corpus["best"] = <<"">>) => built

AnalyzerOf(d) ==
    [cache |-> d._cache, made |-> EmptyMap, raised |-> EmptyBag,
     served |-> EmptyMap]

\* A payload without the identity of the object that holds it.
ValueOf(p) == [p EXCEPT !.id = <<>>]

SameResult(r1, r2) ==
    /\ r1.outcome = r2.outcome
    /\ r1.key = r2.key
    /\ ValueOf(r1.ret) = ValueOf(r2.ret)
    /\ DOMAIN r1.cache = DOMAIN r2.cache

\* loaded is load(save(x)) of the analyzer x as it is now.
RoundTripped ==
    /\ loaded.kind = "analyzer"
    /\ PICKLE_FILE \in disk.files
    /\ disk.pickle = PickleDump(GetState(ObjectDict))
    /\ loaded.dict = SetState(PickleLoad(disk.pickle))

Saved == disk'.files # disk.files \/ (PICKLE_FILE \in disk.files /\ disk' # disk)

\* A step of load that returned an analyzer.
Restored == loaded' # loaded /\ loaded'.kind = "analyzer"

\* C22: the state that __getstate__ / save serializes has nlp = None and
\* every other attribute of the analyzer (tables, stop words,
\* top_ingredients, _cache); the analyzer that was saved still holds its
\* model; an analyzer returned by load holds a model before any operation
\* is called on it.
C22_SaveExcludesModelOnly ==
    /\ [](built => nlp = SPACY_MODEL)
    /\ [][/\ Saved =>
                /\ disk'.pickle.bytes.nlp = NoModel
                /\ DOMAIN disk'.pickle.bytes = DOMAIN ObjectDict
                /\ \A a \in DOMAIN ObjectDict \ {"nlp"} :
                      disk'.pickle.bytes[a] = ObjectDict[a]
                /\ nlp' = SPACY_MODEL
          /\ Restored =>
                /\ loaded'.dict.nlp = SPACY_MODEL
                /\ loaded'.dict.nlp # NoModel]_vars

C22_Witness ==
    /\ built
    /\ nlp = SPACY_MODEL
    /\ PICKLE_FILE \in disk.files
    /\ disk.pickle.bytes.nlp = NoModel
    /\ DOMAIN disk.pickle.bytes._cache # {}
    /\ loaded.kind = "analyzer"
    /\ loaded.dict.nlp = SPACY_MODEL

(***************************************************************************)
(* Claims about load_data (SpecLoad)                                       *)
(***************************************************************************)
NeitherForm(d, path) ==
    path \notin d.files /\ WithSuffixCsvZip(path) \notin d.files

\* C13: constructing a DataProcessor fails with FileNotFoundError and builds
\* neither table whenever a required source is present neither as its CSV
\* nor as its .csv.zip sibling.
C13_MissingSourceFails ==
    (perr.stage = "load_data"
       /\ (NeitherForm(disk, PATH_INTERACTIONS) \/ NeitherForm(disk, PATH_RECIPES)))
      => /\ perr.error = "FileNotFoundError"
         /\ proc.has = {}

C13_Witness ==
    /\ perr = [stage |-> "load_data", error |-> "FileNotFoundError"]
    /\ NeitherForm(disk, PATH_RECIPES)
    /\ PATH_INTERACTIONS \in disk.files

\* C14: if a date value of either file that load_data reads does not parse,
\* the load fails as a whole with the parse error: no DataProcessor, neither
\* table, whichever of the two files is malformed.
C14_BadDateFailsWholeLoad ==
    (perr.stage = "load_data" /\ perr.error # "FileNotFoundError"
       /\ (~disk.ok[PATH_INTERACTIONS] \/ ~disk.ok[PATH_RECIPES]))
      => /\ perr.error = "ComputeError"
         /\ proc.has = {}

C14_Witness ==
    /\ perr = [stage |-> "load_data", error |-> "ComputeError"]
    /\ disk.ok[PATH_INTERACTIONS]
    /\ ~disk.ok[PATH_RECIPES]
    /\ proc.has = {}

\* C28: load_data succeeds and returns both tables whenever each source is
\* present as its CSV or as its .csv.zip, in every combination (one only as
\* CSV and the other only as a zip included); a source that exists is never
\* reported missing because of the form the other is stored in.
C28_AnyFormOfEachSourceLoads ==
    (/\ perr.stage = "load_data"
     /\ ~NeitherForm(disk, PATH_INTERACTIONS)
     /\ ~NeitherForm(disk, PATH_RECIPES)
     /\ \A f \in DOMAIN disk.ok : disk.ok[f])
      => /\ perr.error = "none"
         /\ {"df_interactions", "df_recipes"} \subseteq proc.has

(***************************************************************************)
(* Claims about the application's data load (SpecHelper)                   *)
(***************************************************************************)
ValueNamed(ret, name) ==
    (CHOOSE i \in DOMAIN ret : ret[i].name = name)

TableNames ==
    {"df_interactions", "df_interactions_nna", "df_recipes", "df_recipes_nna",
     "df_total_nt", "df_total", "df_total_court", "proportion_m", "proportion_s"}

SomeParquetMissing == \E f \in Range(ParquetFiles) : f \notin disk.files

\* The last call ran the body of load_data_from_parquet_and_pickle.
BodyRan == output.kind = "load" /\ ~output.hit

\* C15: when RecipeAnalyzer.load raises, _load_recipe_analyzer returns None
\* and logs one warning instead of raising, and
\* load_data_from_parquet_and_pickle still returns the loaded tables with
\* data_loaded True and recipe_analyzer None.
C15_PickleFailureDisablesAnalyzer ==
    (BodyRan /\ ~SomeParquetMissing /\ PICKLE_FILE \notin disk.files) =>
        LET ret == output.call.ret
        IN  /\ output.call.warnings = 1
            /\ output.call.errors = 0
            /\ output.call.st_errors = <<>>
            /\ ret[ValueNamed(ret, "recipe_analyzer")].value = NONE
            /\ ret[ValueNamed(ret, "data_loaded")].value = "True"
            /\ \A n \in TableNames : ret[ValueNamed(ret, n)].value \in Range(ParquetFiles)

C15_Witness ==
    /\ BodyRan /\ ~SomeParquetMissing /\ PICKLE_FILE \notin disk.files
    /\ output.op = "load_data_from_parquet_and_pickle"
    /\ output.call.pickle_failed

\* C16: load_data_from_parquet_and_pickle returns, on the success and on the
\* failure path, a tuple of exactly 11 elements in the order main() unpacks
\* (recipe_analyzer at index 9, data_loaded at index 10, counted from 0),
\* and performs exactly 9 parquet loads on success.
C16_ReturnsElevenElements ==
    output.kind = "load" =>
        /\ Len(output.call.ret) = 11
        /\ [i \in DOMAIN output.call.ret |-> output.call.ret[i].name] = MainNames
        /\ output.call.ret[10].name = "recipe_analyzer"
        /\ output.call.ret[11].name = "data_loaded"
        /\ (~output.hit /\ ~SomeParquetMissing) => output.call.loads = 9
        /\ output.raised = "none"

\* C17: when a parquet load raises, load_data_from_parquet_and_pickle raises
\* nothing: it logs exactly one error, shows exactly one st.error message
\* (the 'Error loading data' one) and returns empty tables with
\* recipe_analyzer None and data_loaded False.
C17_ParquetFailureReturnsEmpty ==
    (BodyRan /\ SomeParquetMissing) =>
        LET ret == output.call.ret
        IN  /\ output.call.errors = 1
            /\ output.call.st_errors = <<ERROR_MESSAGE>>
            /\ output.call.warnings = 0
            /\ ret[ValueNamed(ret, "recipe_analyzer")].value = NONE
            /\ ret[ValueNamed(ret, "data_loaded")].value = "False"
            /\ \A n \in TableNames : ret[ValueNamed(ret, n)].value = EMPTY

C17_Witness ==
    /\ BodyRan /\ output.op = "load_data_from_parquet_and_pickle"
    /\ "short.parquet" \notin disk.files
    /\ "initial_interactions.parquet" \in disk.files
    /\ output.call.loads = 7
    /\ output.call.load_failed

\* C23: over the main() runs of one session, a run that finds no
\* data_loaded key stores every loaded value (tables, proportion series,
\* recipe_analyzer, data_loaded) and logs the two storage messages; a run
\* that finds the key leaves session_state unchanged and shows no spinner;
\* every run sets up the navigation and calls run() once.
C23_SessionStoredOnce ==
    (output.kind = "load" /\ output.op = "main") =>
        LET ret == output.call.ret
        IN  /\ output.raised = "none"
            /\ ~output.found =>
                  /\ DOMAIN session.state = Range(MainNames)
                  /\ \A n \in Range(MainNames) :
                        session.state[n] = ret[ValueNamed(ret, n)].value
                  /\ output.spinner
                  /\ output.storage_logs = 2
            /\ output.found =>
                  /\ session = output.before
                  /\ ~output.spinner
                  /\ output.storage_logs = 0
            /\ output.navigation = NavigationPages
            /\ output.runs = 1

\* C30: every session_state key a page reads once data_loaded is true has
\* been written by main() before the page runs; in particular df_user and
\* df_interactions, which the users-analysis page reads, are in
\* session_state after main() has run on loaded data.
C30_PagesReadStoredKeys ==
    (output.kind = "load" /\ output.op = "main") =>
        LET ret == output.call.ret
        IN  /\ output.page_raised = "none"
            /\ ret[ValueNamed(ret, "data_loaded")].value = "True" =>
                  \A page \in Range(NavigationPages) :
                      PageReads(page) \subseteq DOMAIN session.state

(***************************************************************************)
(* Claims about the ingredient index (SpecIngredients)                     *)
(***************************************************************************)
Normalized(x) == Singular(ToLowercase(x))

\* C18: the ingredient index has one row per normalized ingredient: every
\* key is lowercase and singular, at least 3 characters long and not in the
\* excluded set whatever its case or plurality in the source; spellings
\* that differ by case or plural are counted together; rows are sorted by
\* count, descending.
C18_IngredientIndexNormalized ==
    output.kind = "top_ingredients" =>
        LET rows == output.rows
            names == {input.items[i][j] : i \in {1, 2}, j \in {1, 2}}
            wanted == {Normalized(x) : x \in {y \in names : Normalized(y) \notin EXCLUDED}}
        IN  /\ \A i \in DOMAIN rows :
                  /\ Normalized(rows[i].ingredients) = rows[i].ingredients
                  /\ Len(rows[i].ingredients) >= 3
                  /\ Normalized(rows[i].ingredients) \notin EXCLUDED
            /\ {rows[i].ingredients : i \in DOMAIN rows} = wanted
            /\ \A i, j \in DOMAIN rows :
                  i # j => Normalized(rows[i].ingredients) # Normalized(rows[j].ingredients)
            /\ \A i \in 1..(Len(rows) - 1) : rows[i].count >= rows[i + 1].count

(***************************************************************************)
(* Claims about the pipeline (SpecPipeline)                                *)
(***************************************************************************)
Observations(u) ==
    LET mine(r) == r.user_id = u IN Len(SelectSeq(proc.total, mine))

\* C19: after user_df the per-user table has exactly one row per user_id of
\* the joined table; a user with a single joined observation has std_rating
\* 0, never null or NaN; every std_rating is a finite non-negative number.
C19_OneRowPerUserStdFilled ==
    Has("df_user") =>
        LET users == {proc.total[i].user_id : i \in DOMAIN proc.total}
        IN  /\ {r.user_id : r \in proc.df_user} = users
            /\ Cardinality(proc.df_user) = Cardinality(users)
            /\ \A r \in proc.df_user :
                  /\ r.std_rating.kind = "float"
                  /\ r.std_rating.num >= 0
                  /\ r.std_rating.den > 0
                  /\ Observations(r.user_id) = 1 => r.std_rating.num = 0

C19_Witness ==
    /\ perr = [stage |-> "user_df", error |-> "none"]
    /\ Cardinality(proc.df_user) = 2
    /\ \A r \in proc.df_user : Observations(r.user_id) = 1 /\ r.std_rating.num = 0

\* C20: whatever stages have run, df_interactions and df_recipes hold
\* exactly the rows load_data produced; the cleaned tables are other
\* objects, so what a stage filters out is still in the raw tables.
C20_RawTablesUnchanged ==
    proc.has # {} =>
        /\ {"df_interactions", "df_recipes"} \subseteq proc.has
        /\ proc.df_interactions = input.df_interactions
        /\ proc.df_recipes = input.df_recipes
        /\ Has("recipe_analyzer") =>
              /\ proc.recipe_analyzer.df_interaction = input.df_interactions
              /\ proc.recipe_analyzer.df_recipe = input.df_recipes

C20_Witness ==
    /\ {"df_interactions_nna", "df_recipes_nna_short", "total",
        "df_proportion_m", "recipe_analyzer", "df_user"} \subseteq proc.has
    /\ Len(proc.df_interactions_nna) < Len(proc.df_interactions)
    /\ Len(proc.df_recipes_nna) < Len(proc.df_recipes)
    /\ proc.df_interactions = input.df_interactions
    /\ proc.df_recipes = input.df_recipes

\* C27: once drop_na, split_minutes, merge_data, compute_proportions and
\* process_recipes have run, save_data completes without error: it writes
\* every processed parquet file and calls recipe_analyzer.save once; no
\* other stage is a precondition of save_data.
C27_SaveDataAfterFiveStages ==
    (/\ perr.stage = "save_data"
     /\ {"df_interactions_nna", "df_recipes_nna", "total_nt", "total",
         "total_short", "df_proportion_m", "df_proportion_s",
         "recipe_analyzer"} \subseteq proc.has)
      => /\ perr.error = "none"
         /\ {"initial_interactions.parquet", "processed_interactions.parquet",
             "initial_recipes.parquet", "processed_recipes.parquet",
             "total.parquet", "short.parquet", "proportion_m.parquet",
             "proportion_s.parquet"} \subseteq disk.files
         /\ output.analyzer_saves = 1

(***************************************************************************)
(* Claims about the artifact cache, concurrent callers (SpecConc)          *)
(***************************************************************************)
\* C2: when two callers concurrently issue the first request for the same
\* fingerprint, under any interleaving of their membership check,
\* computation and store, at most one execution happens per fingerprint.
C2_ConcurrentComputedOnce ==
    \A k \in FigureKeys(made) : made[k] <= 1

\* C5: once a fingerprint has an entry in _cache, every later state holds an
\* entry for it with the identical payload object: no step removes,
\* replaces or overwrites an existing entry.
C5_CachedIsAbsorbing ==
    [][\A k \in DOMAIN cache : k \in DOMAIN cache' /\ cache'[k] = cache[k]]_vars

(***************************************************************************)
(* Claims about the DataProcessor stages (SpecProc)                        *)
(***************************************************************************)
InTable(r, df) == \E i \in DOMAIN df : df[i] = r

RecipeIdsOf(df) == {df[i].recipe_id : i \in DOMAIN df}

\* C7: after split_minutes every row of df_recipes_nna is in exactly one
\* bucket: short iff minutes <= 100, medium iff 100 < minutes <= 2880, long
\* iff minutes > 2880; no bucket holds a row that is not in df_recipes_nna.
C7_BucketsPartitionValidRecipes ==
    Has("df_recipes_nna_short") =>
        /\ \A i \in DOMAIN proc.df_recipes_nna :
              LET r == proc.df_recipes_nna[i]
              IN  /\ InTable(r, proc.df_recipes_nna_short) <=> r.minutes <= 100
                  /\ InTable(r, proc.df_recipes_nna_medium)
                        <=> (r.minutes > 100 /\ r.minutes <= 2880)
                  /\ InTable(r, proc.df_recipes_nna_long) <=> r.minutes > 2880
        /\ Len(proc.df_recipes_nna_short) + Len(proc.df_recipes_nna_medium)
              + Len(proc.df_recipes_nna_long) = Len(proc.df_recipes_nna)
        /\ \A b \in {proc.df_recipes_nna_short, proc.df_recipes_nna_medium,
                     proc.df_recipes_nna_long} :
              \A i \in DOMAIN b : InTable(b[i], proc.df_recipes_nna)

C7_Witness ==
    /\ perr = [stage |-> "split_minutes", error |-> "none"]
    /\ \E i \in DOMAIN proc.df_recipes_nna_short :
          proc.df_recipes_nna_short[i].minutes = 100
    /\ \E i \in DOMAIN proc.df_recipes_nna_medium :
          proc.df_recipes_nna_medium[i].minutes = 2880

\* C8: after drop_na, df_interactions_nna is exactly the raw interaction
\* rows whose review is neither null nor blank, and df_recipes_nna exactly
\* the raw recipe rows with 0 < minutes < 525600 and n_steps > 0.
C8_DropNaKeepsExactlyValidRows ==
    LET reviewed(r) == r.review # Null /\ ~IsBlank(r.review)
        valid(r) == 0 < r.minutes /\ r.minutes < 525600 /\ r.n_steps > 0
    IN  Has("df_interactions_nna") =>
            /\ proc.df_interactions_nna = SelectSeq(proc.df_interactions, reviewed)
            /\ proc.df_recipes_nna = SelectSeq(proc.df_recipes, valid)

\* C9: after merge_data every row of each joined table (all-valid, short,
\* medium, long) has a recipe_id that occurs both in the valid interactions
\* and in the valid recipe table of that grouping; an interaction whose
\* recipe_id has no match in that recipe table never appears in the join.
C9_JoinedRowsMatchBothTables ==
    Has("total") =>
        \A g \in {<<proc.total, proc.df_recipes_nna>>,
                  <<proc.total_short, proc.df_recipes_nna_short>>,
                  <<proc.total_medium, proc.df_recipes_nna_medium>>,
                  <<proc.total_long, proc.df_recipes_nna_long>>} :
            /\ \A i \in DOMAIN g[1] :
                  /\ g[1][i].recipe_id \in RecipeIdsOf(proc.df_interactions_nna)
                  /\ g[1][i].recipe_id \in RecipeIdsOf(g[2])
            /\ \A i \in DOMAIN proc.df_interactions_nna :
                  LET x == proc.df_interactions_nna[i]
                  IN  x.recipe_id \notin RecipeIdsOf(g[2]) =>
                         \A j \in DOMAIN g[1] :
                            g[1][j].user_id # x.user_id
                               \/ g[1][j].recipe_id # x.recipe_id

C9_Witness ==
    /\ perr = [stage |-> "merge_data", error |-> "none"]
    /\ Len(proc.total_short) = 1
    /\ Len(proc.total) = 1
    /\ Len(proc.df_interactions_nna) = 2
    /\ proc.total_long = <<>>

\* C10: after compute_proportions, for every group value g (a minutes value
\* of the short-bucket join, an n_steps value <= 40 of the full join) the
\* output row labelled g holds count(rating = 5 in g) / count(g), a value in
\* [0,1], and no input makes the stage fail with a length mismatch.
C10_ProportionPerGroup ==
    LET five(r) == r.rating = 5
        few(r) == r.n_steps <= 40
        full == SelectSeq(proc.total, few)
        RowOk(frame, g, n5, n) ==
            \E j \in DOMAIN frame :
                /\ frame[j].label = g
                /\ frame[j].value[1] * n = n5 * frame[j].value[2]
                /\ 0 <= frame[j].value[1]
                /\ frame[j].value[1] <= frame[j].value[2]
    IN  /\ ~(perr.stage = "compute_proportions"
              /\ perr.error \in {"ValueError", "ShapeError"})
        /\ Has("df_proportion_m") =>
              /\ \A g \in {proc.total_short[i].minutes : i \in DOMAIN proc.total_short} :
                    LET in(r) == r.minutes = g
                        in5(r) == r.minutes = g /\ five(r)
                    IN  RowOk(proc.df_proportion_m, g,
                              Len(SelectSeq(proc.total_short, in5)),
                              Len(SelectSeq(proc.total_short, in)))
              /\ \A g \in {full[i].n_steps : i \in DOMAIN full} :
                    LET in(r) == r.n_steps = g
                        in5(r) == r.n_steps = g /\ five(r)
                    IN  RowOk(proc.df_proportion_s, g,
                              Len(SelectSeq(full, in5)), Len(SelectSeq(full, in)))

(***************************************************************************)
(* Claims about values that are not texts (SpecValues)                     *)
(***************************************************************************)
NotText(x) == ~IsStr(x) \/ IsBlank(x)

\* C21: _clean_text(x) returns the empty list without raising for every x
\* that is not a non-blank string (None, blank string, number, list), and
\* _clean_texts_batch returns the empty list without raising when all of
\* its elements are such values.
C21_InvalidInputGivesEmpty ==
    /\ (output.kind = "cleaned" /\ input.kind = "values"
        /\ output.single.done /\ NotText(input.x)) =>
            output.single.raised = "none" /\ output.single.tokens = <<>>
    /\ (output.kind = "cleaned" /\ input.kind = "values"
        /\ output.batch.done /\ NotText(input.t1) /\ NotText(input.t2)) =>
            output.batch.raised = "none" /\ output.batch.tokens = <<>>

C25_HasErrorsLatches ==
    /\ \A id \in DOMAIN loggers.objects :
          loggers.objects[id].has_error
              = (\E i \in DOMAIN loggers.objects[id].sent :
                    loggers.objects[id].sent[i] = "ERROR")
    /\ (output.kind = "logger" /\ output.op = "has_errors") =>
          output.ret = loggers.objects[output.on].has_error

C25_Witness ==
    /\ output.kind = "logger" /\ output.op = "has_errors" /\ output.ret = TRUE
    /\ loggers.objects[output.on].sent = <<"ERROR", "CRITICAL">>

\* C29: constructing class X returns an instance of X, whatever loggers
\* were constructed before: TimeLogger(...) or RotLogger(...) never returns
\* the singleton made for another class.
C29_ConstructorReturnsOwnClass ==
    (output.kind = "logger" /\ output.op = "__new__") =>
        loggers.objects[output.ret].cls = output.cls

\* C26: once a logger has been initialised with a name, by its
\* construction or by _init_logger(name) on it, every message logged
\* through it at any level is in the file get_log_path() names.
C26_MessagesReachLogPath ==
    \A id \in DOMAIN loggers.objects :
        LET sent == loggers.objects[id].sent
            file == loggers.files[loggers.objects[id].log_path]
        IN  \A i \in DOMAIN Levels :
                LET at(record) == record.by = id /\ record.level = Levels[i]
                    this(level) == level = Levels[i]
                IN  Len(SelectSeq(file, at)) >= Len(SelectSeq(sent, this))

================================================================
